---- MODULE Spec2Model ----
(***************************************************************************)
(* Presentation Clicker: the server's permission ledger and command router *)
(* (presentation_clicker_listener/ui_server.py) and the session handler's  *)
(* reconnect machinery (presentation_clicker_common/mqtt_base.py with the  *)
(* client role of presentation_clicker/client/mqtt_client.py and the server *)
(* role of presentation_clicker_listener/.../mqtt_server.py), the server's *)
(* path from a received token to the ledger, and client, broker and server *)
(* end to end.                                                             *)
(***************************************************************************)
EXTENDS Integers, Sequences, FiniteSets, TLC

(***************************************************************************)
(* Bounds                                                                  *)
(***************************************************************************)
\* longest recorded history of keyboard.send calls
MaxKeys == 1
\* number of reconnect threads the handler may create in one run
MaxThreads == 2
\* longest queue of callbacks scheduled with root.after and not yet run
MaxQueue == 1
\* most messages the broker holds for the server at one time
MaxWire == 3
\* how many actions the client publishes in one run
MaxPublishes == 1
\* how many times paho sends an unacknowledged QoS 1 message again
MaxResends == 1
\* longest password given to the key derivation, in characters
MaxPwdLen == 2
\* longest text given to Fernet.encrypt, in characters
MaxMsgLen == 2

(***************************************************************************)
(* Values                                                                  *)
(***************************************************************************)
\* Python's None: the value of data.get(k) for a key that is missing or null
None == "<None>"
\* display names carried by messages; "" is the empty string
Users == {"alice", ""}
UserVals == Users \cup {None}
StatusVals == {"online", "offline", "connection_lost", "away", None}
ActionVals == {"next", "previous", "start", "end", "blackout", "jump", None}

\* an MQTT topic, as its sequence of "/"-separated levels
\* room codes: the room of the listening server and another one
Rooms == {"ROOM", "OTHER"}
\* variant: the base topic does not follow the room
GetBaseTopic_firstRoom(room) == <<"presentationclicker", "ROOM">>

\* the levels a broker reads in the text of a room code: what stands
\* between its slashes (of the codes here only "ROOM/x" holds one)
Levels(room) == IF room = "ROOM/x" THEN <<"ROOM", "x">> ELSE <<room>>

\* get_base_topic(room), _get_base_topic(): f"presentationclicker/{room}"
GetBaseTopic(room) == <<"presentationclicker">> \o Levels(room)
\* f"{base_topic}/status", f"{base_topic}/presentation", f"{base_topic}/#"
StatusOf(base) == base \o <<"status">>
PresentationOf(base) == base \o <<"presentation">>
AllOf(base) == base \o <<"#">>
\* the topics that carry retained messages: the status topic of each room
PresenceTopics == {StatusOf(GetBaseTopic(r)) : r \in Rooms}
\* the topics of the listening server's room
BaseTopic == GetBaseTopic("ROOM")
StatusTopic == StatusOf(BaseTopic)
PresentationTopic == PresentationOf(BaseTopic)
OtherTopic == BaseTopic \o <<"chat">>

\* payloads handed to the UI: text that is not JSON (also the placeholder
\* "[Decryption failed: ...]"), or a JSON object with its user/status/action
BadJson == [json |-> "invalid", user |-> None, status |-> None, action |-> None]
StatusPayloads ==
  [json : {"object"}, user : UserVals, status : StatusVals, action : {None}]
ActionPayloads ==
  [json : {"object"}, user : UserVals, status : {None}, action : ActionVals]

\* the (topic, payload) pairs the session hands to the UI: presence on the
\* status topic, actions on the presentation topic, and one of each on a
\* topic it does not belong to
Deliveries ==
  ({StatusTopic} \X StatusPayloads)
    \cup ({PresentationTopic} \X ActionPayloads)
    \cup ({StatusTopic, PresentationTopic} \X {BadJson})
    \cup {<<StatusTopic, [json |-> "object", user |-> "alice",
                           status |-> None, action |-> "next"]>>,
           <<PresentationTopic, [json |-> "object", user |-> "alice",
                                 status |-> "online", action |-> None]>>,
           <<OtherTopic, [json |-> "object", user |-> "alice",
                          status |-> "online", action |-> None]>>}

\* the two roles of a session handler
Roles == {"client", "server"}
\* the texts "pw1" and "pw2"
Pw1 == <<112, 119, 49>>
Pw2 == <<112, 119, 50>>

\* the (display name, room, password) triples connect() is called with:
\* two users of one room, and one user in either room
ConnectArgs == {<<"alice", "ROOM", Pw1>>, <<"bob", "ROOM", Pw2>>}
RoomArgs == {<<"alice", "ROOM", Pw1>>, <<"alice", "OTHER", Pw1>>}

\* text is a sequence of code points, bytes a sequence of 0..255
\* str.encode("utf-8"), for code points below 2048
RECURSIVE Utf8(_)
Utf8(text) ==
  IF text = << >>
    THEN << >>
    ELSE (IF Head(text) < 128
            THEN <<Head(text)>>
            ELSE <<192 + (Head(text) \div 64), 128 + (Head(text) % 64)>>)
           \o Utf8(Tail(text))

\* bytes.decode(), for what Utf8 produces
RECURSIVE Utf8Decode(_)
Utf8Decode(bytes) ==
  IF bytes = << >>
    THEN << >>
    ELSE IF bytes[1] < 128
      THEN <<bytes[1]>> \o Utf8Decode(Tail(bytes))
      ELSE <<(bytes[1] - 192) * 64 + (bytes[2] - 128)>>
             \o Utf8Decode(Tail(Tail(bytes)))

\* PBKDF2HMAC keys its HMAC-SHA256 with the password bytes, and HMAC fills a
\* key shorter than its 64-byte block with zero bytes: byte strings that
\* differ only in zero bytes at the end are one HMAC key, named here by the
\* bytes without them
RECURSIVE HmacKey(_)
HmacKey(bytes) ==
  IF bytes # << >> /\ bytes[Len(bytes)] = 0
    THEN HmacKey(SubSeq(bytes, 1, Len(bytes) - 1))
    ELSE bytes

\* get_fernet(pwd): kdf.derive(pwd.encode("utf-8")) with the fixed salt,
\* iteration count and length; the key is named by what PBKDF2 computes it
\* from
GetFernet(pwd) ==
  <<"key", "presentationclicker_salt", 100000, 32, HmacKey(Utf8(pwd))>>

\* PresentationMqttServer._get_fernet(pwd), the listener's own copy
ServerGetFernet(pwd) ==
  <<"key", "presentationclicker_salt", 100000, 32, HmacKey(Utf8(pwd))>>

\* json.dumps of a presence object
StatusJson(user, status) ==
  [json |-> "object", user |-> user, status |-> status, action |-> None]

\* Fernet.encrypt(text): a token that names the key it was made with
Encrypt(k, text) == [key |-> k, tampered |-> FALSE, text |-> text]

\* json.dumps of an action object
ActionJson(user, action) ==
  [json |-> "object", user |-> user, status |-> None, action |-> action]

\* the text "[Decryption failed: ...]", which is not JSON
Placeholder ==
  [json |-> "placeholder", user |-> None, status |-> None, action |-> None]

\* a token whose bytes were changed on the way
Tamper(tok) == [tok EXCEPT !.tampered = TRUE]

\* the passwords of the room and of a stranger
Passwords == {Pw1, Pw2}

\* plaintexts a peer may have encrypted: presence and action of alice, and
\* text that is not JSON
ArrivingTexts ==
  {StatusJson("alice", "online"), StatusJson("alice", "offline"),
   ActionJson("alice", "next"), BadJson}

\* tokens that reach the server: made with either password, and the ones
\* made with the first password also tampered with
ArrivingTokens ==
  {Encrypt(GetFernet(pwd), t) : pwd \in Passwords, t \in ArrivingTexts}
    \cup {Tamper(Encrypt(GetFernet(Pw1), t)) : t \in ArrivingTexts}

\* no key (self.fernet is None), no token, no will, no topic
NoKey == << >>
NoTopic == << >>
NoToken == [key |-> NoKey, tampered |-> FALSE, text |-> BadJson]
NoWill == [topic |-> << >>, payload |-> NoToken, qos |-> 0, retain |-> FALSE]

\* the Treeview columns a click can land on
Columns == {"#1", "#2", "#3"}
\* identify_row returns "" when the click is below the last row
NoRow == "<no row>"
\* the clicks: every cell of every row, a heading, and the empty area
Clicks(rows) ==
  ({"cell"} \X rows \X Columns)
    \cup {<<"heading", NoRow, "#2">>, <<"cell", NoRow, "#2">>}

VARIABLES
  user_rows,        \* ServerListenerApp.user_rows: user -> [nav, control]
  keys,             \* history of keyboard.send calls, oldest first
  last_log,         \* what the most recent handler run wrote with self._log
                    \* (kind "none" when it wrote nothing)
  went_offline,     \* history: users whose latest processed presence is
                    \* offline or connection_lost
  should_reconnect, \* BaseMqttHandler._should_reconnect
  connected,        \* BaseMqttHandler.connected
  reconnect_thread, \* BaseMqttHandler._reconnect_thread (0 = None)
  thread_pc,        \* thread id -> position of that _reconnect_loop thread
  attempted,        \* history: thread id -> the thread has called reconnect()
                    \* since it started or last slept
  caller_pc,        \* position of the caller thread inside connect/disconnect
  net_pc,           \* position of the network thread inside _on_connect or
                    \* _on_disconnect
  loop_running,     \* paho network thread started (loop_start) and not stopped
  link,             \* transport: "none", "pending", "up", "closing"
  caller_disconnected, \* history: disconnect() has returned, no connect() since
  start_skipped,    \* history: _on_disconnect found the reconnect loop alive
  notified,         \* history: upward notifications since the last connect()
  net_rc,           \* the rc argument of the running or latest _on_disconnect
  flag_off_since_entry, \* history: _should_reconnect has been false ever since
                    \* the running or latest _on_disconnect was entered
  recovering,       \* history: an unexpected loss passed the test of
                    \* _on_disconnect; no handshake, disconnect() or connect() since
  timed_out,        \* history: connect() raised TimeoutError, no connect() since
  loop_started,     \* history: a reconnect thread was started since connect()
  role,             \* which handler class this is: "client" or "server"
  session_user,     \* PresentationMqttClient.user (None before connect)
  fernet,           \* the handler's Fernet key, self.fernet (NoKey before connect)
  will,             \* the last will registered with the paho client (will_set)
  link_will,        \* broker: the will that came with the current connection
  retained,         \* broker: status topic -> the message retained on it
  offline_delivered, \* history: disconnect() published offline on a live
                    \* connection, no connect() since
  connect_trace,    \* history: what the latest _on_connect did, in order
  connect_args,     \* history: the (user, room, pwd) of the latest connect()
  room,             \* the handler's self.room (None before connect)
  base_topic,       \* the handler's self.base_topic (NoTopic before connect)
  calls,            \* history: the requests to paho and the on_publish
                    \* notifications of the latest step of the handler that
                    \* made any since connect() was called, in order
  srv_fernet,       \* PresentationMqttServer.fernet of the listening server
  srv_subscribed,   \* the listening server is connected and subscribed
  wire,             \* broker: messages for the server, not yet delivered
  ui_queue,         \* the server UI's callbacks scheduled with root.after
  inflight,         \* client's paho: the QoS 1 action not yet acknowledged
  client_alive,     \* the client process is running
  action_token,     \* history: the token of the client's published action
  published,        \* history: number of publish_action calls
  resends,          \* history: number of times paho sent an action again
  decrypt_failed,   \* history: the server handed up a placeholder
  entry,            \* the command that was run (None: no command line modelled)
  cli_args,         \* history: the flags as they were typed
  sys_argv,         \* the flags in sys.argv, which the next parser reads
  cli_pc,           \* position of the invocation: "start", "main", "running"
                    \* (the app's window is open), "exited"
  printed,          \* what the invocation printed (None: nothing)
  config_written,   \* update_mqtt_config was called
  pwd_client,       \* the password typed into the client (password P1)
  pwd_server,       \* the password typed into the server (password P2)
  message,          \* the text the client encrypts
  key_client,       \* the key get_fernet gave the client
  key_server,       \* the key _get_fernet gave the server
  token,            \* what Fernet.encrypt returned
  opened,           \* what the server got from decrypt(...).decode()
  stale,            \* history: users whose row was made before the server's
                    \* latest disconnect() and has been there ever since
  upcalls,          \* history: what _on_message handed to on_message for the
                    \* message it received last, in order
  online_peers,     \* history: the users of the clients that are connected
                    \* and have published online
  ghost_will        \* broker: the will of a connection the client has given
                    \* up and the broker still holds open

ledgerVars == <<user_rows, keys, last_log, went_offline>>
peerVars == <<role, session_user, fernet, will, link_will, retained,
              offline_delivered, connect_trace, connect_args, room, base_topic,
              calls>>
serverVars == <<srv_fernet, srv_subscribed, wire, ui_queue, inflight,
                client_alive, action_token, published, resends, decrypt_failed>>
\* the same without the broker's queue
quietVars == <<srv_fernet, srv_subscribed, ui_queue, inflight, client_alive,
               action_token, published, resends, decrypt_failed>>
mqttVars == <<should_reconnect, connected, reconnect_thread, thread_pc,
              attempted,
              caller_pc, net_pc, loop_running, link, caller_disconnected,
              start_skipped, notified, net_rc, flag_off_since_entry,
              recovering, timed_out, loop_started, peerVars>>
cliVars == <<entry, cli_args, sys_argv, cli_pc, printed, config_written>>
cipherVars == <<pwd_client, pwd_server, message, key_client, key_server,
                token, opened>>
observerVars == <<stale, upcalls, online_peers, ghost_will>>
\* what a step leaves alone unless it names it: the command line, the cipher
\* and the histories of the server's sessions and of the broker
standaloneVars == <<cliVars, cipherVars, observerVars>>
vars == <<user_rows, keys, last_log, went_offline, should_reconnect, connected,
          reconnect_thread, thread_pc, attempted, caller_pc, net_pc,
          loop_running, link,
          caller_disconnected, start_skipped, notified, net_rc,
          flag_off_since_entry, recovering, timed_out, loop_started, role,
          session_user, fernet, will, link_will, retained, offline_delivered,
          connect_trace, connect_args, room, base_topic, calls, srv_fernet,
          srv_subscribed, wire,
          ui_queue, inflight, client_alive, action_token, published, resends,
          decrypt_failed, entry, cli_args, sys_argv, cli_pc, printed,
          config_written, pwd_client, pwd_server, message, key_client,
          key_server, token, opened, stale, upcalls, online_peers,
          ghost_will>>

(***************************************************************************)
(* Permission ledger and command router (ui_server.py)                     *)
(***************************************************************************)
\* topic.endswith("/" + leaf)
EndsWith(topic, leaf) == Len(topic) >= 2 /\ topic[Len(topic)] = leaf

\* truthiness of a str-or-None value, as in "if user and action"
Truthy(v) == v # None /\ v # ""

\* the text Tk stores for a row's first value and returns from item(...)
TkStr(user) == IF user = None THEN "None" ELSE user

LogLine(kind, user) == [kind |-> kind, user |-> user]

\* variant: the new row's control copies nav instead of the control argument
UpdateUser_controlFromNav(rows, user, nav, control) ==
  IF user \in DOMAIN rows
    THEN rows
    ELSE [u \in DOMAIN rows \cup {user} |->
            IF u = user THEN [nav |-> nav, control |-> nav] ELSE rows[u]]

\* variant: no early return, an existing row is overwritten
UpdateUser_resets(rows, user, nav, control) ==
  [u \in DOMAIN rows \cup {user} |->
     IF u = user THEN [nav |-> nav, control |-> control] ELSE rows[u]]

\* _update_user(user, nav, control)
UpdateUser(rows, user, nav, control) ==
  IF user \in DOMAIN rows
    THEN rows
    ELSE [u \in DOMAIN rows \cup {user} |->
            IF u = user THEN [nav |-> nav, control |-> control] ELSE rows[u]]

\* variant: the row is kept
RemoveUser_keeps(rows, user) == rows

\* variant: every row is dropped
RemoveUser_clears(rows, user) ==
  IF user \in DOMAIN rows THEN << >> ELSE rows

\* "if user in self.user_rows: ... del self.user_rows[user]"
RemoveUser(rows, user) ==
  IF user \in DOMAIN rows
    THEN [u \in DOMAIN rows \ {user} |-> rows[u]]
    ELSE rows

\* variant: a missing user reads as permitted
PermsGet_absentPermitted(rows, user, field) ==
  IF user \in DOMAIN rows THEN rows[user][field] ELSE TRUE

\* perms = self.user_rows.get(user, {}); perms.get(field)
PermsGet(rows, user, field) ==
  IF user \in DOMAIN rows THEN rows[user][field] ELSE FALSE

\* variant: next and previous send each other's key
KeyFor_swapped(action) ==
  CASE action = "next" -> "left"
    [] action = "previous" -> "right"
    [] action = "start" -> "shift+f5"
    [] action = "end" -> "end"
    [] action = "blackout" -> "b"

\* the key sent for an action that passed its permission check
KeyFor(action) ==
  CASE action = "next" -> "right"
    [] action = "previous" -> "left"
    [] action = "start" -> "shift+f5"
    [] action = "end" -> "end"
    [] action = "blackout" -> "b"

\* the permission check of the presentation branch
Allowed(rows, user, action) ==
  IF action \in {"next", "previous"} /\ PermsGet(rows, user, "nav")
    THEN TRUE
    ELSE action \in {"start", "end", "blackout"}
           /\ PermsGet(rows, user, "control")

\* the status branch of _handle_message
HandleStatus(data) ==
  /\ keys' = keys
  /\ CASE data.status = "online" ->
            /\ user_rows' = UpdateUser(user_rows, data.user, TRUE, FALSE)
            /\ last_log' = LogLine("online", data.user)
            /\ went_offline' = went_offline \ {data.user}
       [] data.status = "offline" ->
            /\ user_rows' = RemoveUser(user_rows, data.user)
            /\ last_log' = LogLine("offline", data.user)
            /\ went_offline' = went_offline \cup {data.user}
       [] data.status = "connection_lost" ->
            /\ user_rows' = RemoveUser(user_rows, data.user)
            /\ last_log' = LogLine("connection_lost", data.user)
            /\ went_offline' = went_offline \cup {data.user}
       [] OTHER ->
            /\ user_rows' = user_rows
            /\ last_log' = LogLine("none", None)
            /\ went_offline' = went_offline

\* variant: whatever is not next or previous is taken for a control action,
\* and the last branch sends its key without naming the action
HandleAction_otherIsControl(data) ==
  /\ user_rows' = user_rows
  /\ went_offline' = went_offline
  /\ IF Truthy(data.user) /\ Truthy(data.action)
       THEN IF IF data.action \in {"next", "previous"}
                 THEN PermsGet(user_rows, data.user, "nav")
                 ELSE PermsGet(user_rows, data.user, "control")
              THEN /\ keys' = Append(keys, IF data.action = "jump"
                                             THEN "b"
                                             ELSE KeyFor(data.action))
                   /\ last_log' = LogLine("allowed", data.user)
              ELSE /\ keys' = keys
                   /\ last_log' = LogLine("denied", data.user)
       ELSE /\ keys' = keys
            /\ last_log' = LogLine("malformed_action", None)

\* the presentation branch of _handle_message
HandleAction(data) ==
  /\ user_rows' = user_rows
  /\ went_offline' = went_offline
  /\ IF Truthy(data.user) /\ Truthy(data.action)
       THEN IF Allowed(user_rows, data.user, data.action)
              THEN /\ keys' = Append(keys, KeyFor(data.action))
                   /\ last_log' = LogLine("allowed", data.user)
              ELSE /\ keys' = keys
                   /\ last_log' = LogLine("denied", data.user)
       ELSE /\ keys' = keys
            /\ last_log' = LogLine("malformed_action", None)

\* _handle_message(topic, payload), run on the UI thread
HandleMessage(topic, payload) ==
  /\ IF payload.json # "object"
       THEN /\ last_log' = LogLine("malformed", None)
            /\ UNCHANGED <<user_rows, keys, went_offline>>
       ELSE IF EndsWith(topic, "status")
         THEN HandleStatus(payload)
         ELSE IF EndsWith(topic, "presentation")
           THEN HandleAction(payload)
           ELSE /\ last_log' = LogLine("none", None)
                /\ UNCHANGED <<user_rows, keys, went_offline>>
  /\ stale' = stale \cap DOMAIN user_rows'
  /\ UNCHANGED mqttVars
  /\ UNCHANGED <<cliVars, cipherVars, upcalls, online_peers, ghost_will>>

\* variant: both booleans of the row are flipped
Toggle_both(rows, user, field) ==
  [rows EXCEPT ![user] = [nav |-> ~@.nav, control |-> ~@.control]]

\* self.user_rows[user][field] = not self.user_rows[user][field]
Toggle(rows, user, field) == [rows EXCEPT ![user][field] = ~@]

\* on_treeview_click(event): region, row and column under the pointer; a row
\* is named by the user it was inserted for, values[0] is Tk's text of it
OnTreeviewClick(region, row, col) ==
  /\ IF region # "cell" \/ row = NoRow \/ col \notin {"#2", "#3"}
          \/ TkStr(row) \notin DOMAIN user_rows
       THEN /\ user_rows' = user_rows
            /\ last_log' = LogLine("none", None)
       ELSE LET user == TkStr(row)
                field == IF col = "#2" THEN "nav" ELSE "control"
            IN /\ user_rows' = Toggle(user_rows, user, field)
               /\ last_log' = LogLine("permission_changed", user)
  /\ UNCHANGED <<keys, went_offline>>
  /\ UNCHANGED mqttVars
  /\ UNCHANGED standaloneVars

(***************************************************************************)
(* Session handler (mqtt_base.py, client role of client/mqtt_client.py).   *)
(* PresentationMqttServer (mqtt_server.py) repeats _on_disconnect and      *)
(* _reconnect_loop of the base class line for line; the steps of those     *)
(* methods stand for both roles, connect/disconnect/_on_connect are told    *)
(* apart by role.                                                          *)
(***************************************************************************)
Threads == 1..MaxThreads

\* Thread.is_alive()
IsAlive(t) == thread_pc[t] \notin {"unborn", "done"}

\* variant: the liveness test of the previous loop is left out
NeedsNewThread_always == TRUE

\* "not self._reconnect_thread or not self._reconnect_thread.is_alive()"
NeedsNewThread == reconnect_thread = 0 \/ ~IsAlive(reconnect_thread)

\* variant: the will carries the offline presence
WillFor_offline(base, u, k) ==
  [topic |-> StatusOf(base), payload |-> Encrypt(k, StatusJson(u, "offline")),
   qos |-> 1, retain |-> TRUE]

\* the arguments of will_set in PresentationMqttClient.connect
WillFor(base, u, k) ==
  [topic |-> StatusOf(base),
   payload |-> Encrypt(k, StatusJson(u, "connection_lost")),
   qos |-> 1, retain |-> TRUE]

\* variant: the message goes out with QoS 0
PublishEncrypted_qos0(k, topic, payload, qos, retain) ==
  [topic |-> topic, token |-> Encrypt(k, payload), qos |-> 0,
   retain |-> retain]

\* publish_encrypted(topic, payload, qos, retain): the message handed to
\* self.client.publish
PublishEncrypted(k, topic, payload, qos, retain) ==
  [topic |-> topic, token |-> Encrypt(k, payload), qos |-> qos,
   retain |-> retain]

\* one entry of calls: a request to paho (will_set, subscribe, publish) or
\* the on_publish notification, with the topic and what goes with it
Request(op, topic, body, qos, retain) ==
  [op |-> op, topic |-> topic, body |-> body, qos |-> qos, retain |-> retain]

\* publish_status(status): publish_encrypted on <base>/status with qos 1
\* and retain, then on_publish(topic, json.dumps(payload))
PublishStatusCalls(base, u, k, status) ==
  LET m == PublishEncrypted(k, StatusOf(base), StatusJson(u, status), 1, TRUE)
  IN <<Request("publish", m.topic, m.token, m.qos, m.retain),
       Request("on_publish", StatusOf(base), StatusJson(u, status), 0, FALSE)>>

\* publish_action(action): publish_encrypted on <base>/presentation with
\* qos 1 (retain is the default False), then on_publish(topic,
\* json.dumps(payload))
PublishActionCalls(base, u, k, action) ==
  LET m == PublishEncrypted(k, PresentationOf(base), ActionJson(u, action),
                            1, FALSE)
  IN <<Request("publish", m.topic, m.token, m.qos, m.retain),
       Request("on_publish", PresentationOf(base), ActionJson(u, action),
               0, FALSE)>>

\* variant: the server announces itself as well
ConnectCalls_serverAnnounces(r, base, u, k) ==
  <<Request("subscribe", AllOf(base), NoToken, 0, FALSE)>>
    \o PublishStatusCalls(base, u, k, "online")

\* what _on_connect asks of paho after connected = True: the client's
\* _on_connect_handler subscribes to <base>/# (default QoS 0) and calls
\* publish_status("online"); the server's _on_connect subscribes
ConnectCalls(r, base, u, k) ==
  <<Request("subscribe", AllOf(base), NoToken, 0, FALSE)>>
    \o (IF r = "client" THEN PublishStatusCalls(base, u, k, "online")
                        ELSE << >>)

\* the messages among the calls that paho sends to the broker
Published(cs) ==
  LET pubs == SelectSeq(cs, LAMBDA c : c.op = "publish")
  IN [i \in DOMAIN pubs |->
        [topic |-> pubs[i].topic, token |-> pubs[i].body,
         qos |-> pubs[i].qos, retain |-> pubs[i].retain]]

\* variant: the broker publishes no will
WillMessages_none == << >>

\* broker: what it publishes when the current connection ends without a
\* DISCONNECT packet: the will that came with a connection that was up
WillMessages ==
  IF link = "up" /\ link_will # NoWill
    THEN <<[topic |-> link_will.topic, token |-> link_will.payload,
            qos |-> link_will.qos, retain |-> link_will.retain]>>
    ELSE << >>

\* broker: the retained messages once it has published msgs: each message
\* with the retain flag replaces the one retained on its topic
Retain(old, msgs) ==
  [t \in DOMAIN old |->
     LET hits == {i \in DOMAIN msgs : msgs[i].retain /\ msgs[i].topic = t}
     IN IF hits = {} THEN old[t]
        ELSE msgs[CHOOSE i \in hits : \A j \in hits : j <= i].token]

\* broker: the retained messages after such an end
AfterUncleanEnd == Retain(retained, WillMessages)

\* broker: a topic matches the subscription <base>/#: each level of the
\* base is the topic's level or the wildcard "+"; a base that holds "#"
\* makes a filter the broker refuses
Matches(base, topic) ==
  /\ Len(topic) >= Len(base)
  /\ \A i \in DOMAIN base : base[i] # "#" /\ base[i] \in {topic[i], "+"}

\* broker: the messages it passes on to the server, which is subscribed to
\* <BaseTopic>/# while it is connected
Forward(msgs) ==
  IF srv_subscribed
    THEN SelectSeq(msgs, LAMBDA m : Matches(BaseTopic, m.topic))
    ELSE << >>

\* publish_status(status): the message on <base>/status
StatusMessage(status) ==
  PublishEncrypted(fernet, StatusOf(base_topic),
                   StatusJson(session_user, status), 1, TRUE)

\* paho: the QoS 1 message that was sent and not acknowledged goes out again
\* after the next handshake
Unacknowledged ==
  IF inflight # NoToken
    THEN <<[topic |-> PresentationOf(base_topic), token |-> inflight,
            qos |-> 1, retain |-> FALSE]>>
    ELSE << >>

\* connect(user, room, pwd) up to the call of _connect_to_broker: room, base
\* topic and key are stored, the client also stores the user and registers
\* its will
ConnectPrepare(u, rm, pwd) ==
  /\ caller_pc = "idle"
  /\ caller_pc' = "prepared"
  /\ room' = rm
  /\ base_topic' = GetBaseTopic(rm)
  /\ fernet' = GetFernet(pwd)
  /\ IF role = "client"
       THEN LET w == WillFor(GetBaseTopic(rm), u, GetFernet(pwd))
            IN /\ session_user' = u
               /\ will' = w
               /\ calls' = <<Request("will_set", w.topic, w.payload, w.qos,
                                     w.retain)>>
       ELSE /\ UNCHANGED <<session_user, will>>
            /\ calls' = << >>
  /\ UNCHANGED <<should_reconnect, connected, reconnect_thread, thread_pc,
                 attempted, net_pc, loop_running, link, caller_disconnected,
                 start_skipped, notified, net_rc, flag_off_since_entry,
                 recovering, timed_out, loop_started>>
  /\ connect_args' = <<IF role = "client" THEN u ELSE None, rm, pwd>>
  /\ UNCHANGED <<role, link_will, retained, offline_delivered, connect_trace>>
  /\ UNCHANGED ledgerVars
  /\ UNCHANGED standaloneVars
  /\ UNCHANGED serverVars

\* _connect_to_broker up to its wait (the same lines in
\* PresentationMqttServer.connect): connect_async, _should_reconnect = True,
\* loop_start; the CONNECT packet carries the registered will
ConnectBegin ==
  /\ caller_pc = "prepared"
  /\ caller_pc' = "waiting"
  /\ should_reconnect' = TRUE
  /\ loop_running' = TRUE
  /\ link' = "pending"
  /\ link_will' = will
  /\ retained' = AfterUncleanEnd
  /\ offline_delivered' = FALSE
  /\ caller_disconnected' = FALSE
  /\ notified' = {}
  /\ flag_off_since_entry' = FALSE
  /\ recovering' = FALSE
  /\ timed_out' = FALSE
  /\ loop_started' = FALSE
  /\ UNCHANGED <<connected, reconnect_thread, thread_pc, attempted, net_pc,
                 start_skipped, net_rc>>
  /\ UNCHANGED <<role, session_user, fernet, will, connect_trace,
                 connect_args, room, base_topic, calls>>
  /\ UNCHANGED ledgerVars
  /\ UNCHANGED standaloneVars
  /\ wire' = wire \o Forward(WillMessages)
  /\ UNCHANGED quietVars

\* the wait of _connect_to_broker ends because self.connected is set
ConnectReturn ==
  /\ caller_pc = "waiting"
  /\ connected
  /\ caller_pc' = "idle"
  /\ UNCHANGED <<should_reconnect, connected, reconnect_thread, thread_pc,
                 attempted, net_pc, loop_running, link, caller_disconnected,
                 start_skipped, notified, net_rc, flag_off_since_entry,
                 recovering, timed_out, loop_started>>
  /\ UNCHANGED ledgerVars
  /\ UNCHANGED standaloneVars
  /\ UNCHANGED serverVars
  /\ UNCHANGED peerVars

\* the wait of _connect_to_broker is over and "if not self.connected" holds
ConnectTimeout ==
  /\ caller_pc = "waiting"
  /\ ~connected
  /\ caller_pc' = "aborting"
  /\ UNCHANGED <<should_reconnect, connected, reconnect_thread, thread_pc,
                 attempted, net_pc, loop_running, link, caller_disconnected,
                 start_skipped, notified, net_rc, flag_off_since_entry,
                 recovering, timed_out, loop_started>>
  /\ UNCHANGED ledgerVars
  /\ UNCHANGED standaloneVars
  /\ UNCHANGED serverVars
  /\ UNCHANGED peerVars

\* _connect_to_broker after the failed test: loop_stop, which joins the
\* network thread once its running callback is over, then TimeoutError
ConnectAbort ==
  /\ caller_pc = "aborting"
  /\ net_pc = "idle"
  /\ caller_pc' = "idle"
  /\ loop_running' = FALSE
  /\ timed_out' = TRUE
  /\ UNCHANGED <<should_reconnect, connected, reconnect_thread, thread_pc,
                 attempted,
                 net_pc, link, caller_disconnected, start_skipped, notified,
                 net_rc, flag_off_since_entry, recovering, loop_started>>
  /\ UNCHANGED ledgerVars
  /\ UNCHANGED standaloneVars
  /\ UNCHANGED serverVars
  /\ UNCHANGED peerVars

\* PresentationMqttClient.disconnect: when connected, publish_status("offline")
\* up to its call of on_publish, else on to BaseMqttHandler.disconnect; the
\* presence reaches the broker when the connection is up
DisconnectBegin ==
  /\ role = "client"
  /\ caller_pc = "idle"
  /\ IF connected
       THEN /\ notified' = notified \cup {"on_publish offline"}
            /\ caller_pc' = "on_publish_status"
            /\ calls' = PublishStatusCalls(base_topic, session_user, fernet,
                                           "offline")
            /\ retained' = IF link = "up"
                             THEN Retain(retained, Published(calls'))
                             ELSE retained
            /\ offline_delivered' = (link = "up")
       ELSE /\ notified' = notified
            /\ caller_pc' = "teardown"
            /\ UNCHANGED <<retained, offline_delivered, calls>>
  /\ UNCHANGED <<should_reconnect, connected, reconnect_thread, thread_pc,
                 attempted,
                 net_pc, loop_running, link, caller_disconnected, start_skipped,
                 net_rc, flag_off_since_entry, recovering, timed_out,
                 loop_started>>
  /\ UNCHANGED <<role, session_user, fernet, will, link_will,
                 connect_trace, connect_args, room, base_topic>>
  /\ UNCHANGED ledgerVars
  /\ UNCHANGED standaloneVars
  /\ wire' = IF connected /\ link = "up"
                THEN wire \o Forward(Published(calls'))
                ELSE wire
  /\ UNCHANGED quietVars

\* the on_publish callback called by publish_status or publish_action on the
\* caller thread returns: disconnect goes on to its grace sleep,
\* publish_action returns
OnPublishReturn ==
  /\ caller_pc \in {"on_publish_status", "on_publish_action"}
  /\ caller_pc' = IF caller_pc = "on_publish_status" THEN "grace" ELSE "idle"
  /\ UNCHANGED <<should_reconnect, connected, reconnect_thread, thread_pc,
                 attempted, net_pc, loop_running, link, caller_disconnected,
                 start_skipped, notified, net_rc, flag_off_since_entry,
                 recovering, timed_out, loop_started>>
  /\ UNCHANGED ledgerVars
  /\ UNCHANGED standaloneVars
  /\ UNCHANGED serverVars
  /\ UNCHANGED peerVars

\* BaseMqttHandler.disconnect: self._should_reconnect = False
DisconnectClearFlag ==
  /\ caller_pc \in {"grace", "teardown"}
  /\ should_reconnect' = FALSE
  /\ caller_pc' = "flag_cleared"
  /\ recovering' = FALSE
  /\ UNCHANGED <<connected, reconnect_thread, thread_pc, attempted, net_pc,
                 loop_running,
                 link, caller_disconnected, start_skipped, notified, net_rc,
                 flag_off_since_entry, timed_out, loop_started>>
  /\ UNCHANGED ledgerVars
  /\ UNCHANGED standaloneVars
  /\ UNCHANGED serverVars
  /\ UNCHANGED peerVars

\* BaseMqttHandler.disconnect: self.connected = False; self.client.disconnect()
DisconnectTransport ==
  /\ caller_pc = "flag_cleared"
  /\ connected' = FALSE
  /\ link' = IF link \in {"pending", "up"} THEN "closing" ELSE link
  /\ caller_pc' = "idle"
  /\ caller_disconnected' = TRUE
  /\ UNCHANGED <<should_reconnect, reconnect_thread, thread_pc, attempted,
                 net_pc, loop_running, start_skipped, notified, net_rc,
                 flag_off_since_entry, recovering, timed_out, loop_started>>
  /\ UNCHANGED ledgerVars
  /\ UNCHANGED standaloneVars
  /\ UNCHANGED serverVars
  /\ UNCHANGED peerVars

\* PresentationMqttServer.disconnect: self._should_reconnect = False
ServerDisconnectBegin ==
  /\ role = "server"
  /\ caller_pc = "idle"
  /\ should_reconnect' = FALSE
  /\ caller_pc' = "srv_flag_cleared"
  /\ recovering' = FALSE
  /\ UNCHANGED <<connected, reconnect_thread, thread_pc, attempted, net_pc,
                 loop_running,
                 link, caller_disconnected, start_skipped, notified, net_rc,
                 flag_off_since_entry, timed_out, loop_started>>
  /\ UNCHANGED ledgerVars
  /\ UNCHANGED standaloneVars
  /\ UNCHANGED serverVars
  /\ UNCHANGED peerVars

\* PresentationMqttServer.disconnect: self.client.loop_stop(), which joins
\* the network thread once its running callback is over
ServerLoopStop ==
  /\ caller_pc = "srv_flag_cleared"
  /\ net_pc = "idle"
  /\ loop_running' = FALSE
  /\ caller_pc' = "srv_stopped"
  /\ UNCHANGED <<should_reconnect, connected, reconnect_thread, thread_pc,
                 attempted,
                 net_pc, link, caller_disconnected, start_skipped, notified,
                 net_rc, flag_off_since_entry, recovering, timed_out,
                 loop_started>>
  /\ UNCHANGED ledgerVars
  /\ UNCHANGED standaloneVars
  /\ UNCHANGED serverVars
  /\ UNCHANGED peerVars

\* PresentationMqttServer.disconnect: self.client.disconnect()
ServerDisconnectTransport ==
  /\ caller_pc = "srv_stopped"
  /\ link' = IF link \in {"pending", "up"} THEN "closing" ELSE link
  /\ caller_pc' = "idle"
  /\ caller_disconnected' = TRUE
  /\ UNCHANGED <<should_reconnect, connected, reconnect_thread, thread_pc,
                 attempted,
                 net_pc, loop_running, start_skipped, notified, net_rc,
                 flag_off_since_entry, recovering, timed_out, loop_started>>
  /\ UNCHANGED ledgerVars
  /\ UNCHANGED standaloneVars
  /\ UNCHANGED serverVars
  /\ UNCHANGED peerVars

\* variant: the upward notification comes first
ConnectEffects_notifyFirst(r) ==
  IF r = "client"
    THEN <<"on_connect", "subscribe", "publish online", "on_publish online">>
    ELSE <<"on_connect", "subscribe">>

\* what _on_connect does after connected = True, in order: the client's
\* _on_connect_handler subscribes to <base>/# and publishes the online
\* presence (publish_status reports on_publish), then on_connect(); the
\* server's _on_connect subscribes, then on_connect()
ConnectEffects(r) ==
  IF r = "client"
    THEN <<"subscribe", "publish online", "on_publish online", "on_connect">>
    ELSE <<"subscribe", "on_connect">>

\* the upward callbacks (on_connect, on_publish ...) among the effects
Upward(effects) ==
  {effects[i] : i \in DOMAIN effects} \cap {"on_connect", "on_publish online"}

\* the network thread completes the handshake and runs _on_connect up to
\* its call of on_connect()
OnConnect ==
  /\ loop_running
  /\ net_pc = "idle"
  /\ link = "pending"
  /\ link' = "up"
  /\ connected' = TRUE
  /\ connect_trace' = ConnectEffects(role)
  /\ notified' = notified \cup Upward(ConnectEffects(role))
  /\ calls' = ConnectCalls(role, base_topic, session_user, fernet)
  /\ retained' = Retain(retained, Published(calls'))
  /\ recovering' = FALSE
  /\ net_pc' = "on_connect"
  /\ UNCHANGED <<should_reconnect, reconnect_thread, thread_pc, attempted,
                 caller_pc, loop_running, caller_disconnected, start_skipped,
                 net_rc, flag_off_since_entry, timed_out, loop_started>>
  /\ UNCHANGED <<role, session_user, fernet, will, link_will,
                 offline_delivered, connect_args, room, base_topic>>
  /\ UNCHANGED ledgerVars
  /\ UNCHANGED standaloneVars
  /\ wire' = wire \o Forward(Published(calls') \o Unacknowledged)
  /\ resends' = resends + Len(Unacknowledged)
  /\ UNCHANGED <<srv_fernet, srv_subscribed, ui_queue, inflight, client_alive,
                 action_token, published, decrypt_failed>>

\* the on_connect callback returns and with it _on_connect
OnConnectReturn ==
  /\ net_pc = "on_connect"
  /\ net_pc' = "idle"
  /\ UNCHANGED <<should_reconnect, connected, reconnect_thread, thread_pc,
                 attempted, caller_pc, loop_running, link, caller_disconnected,
                 start_skipped, notified, net_rc, flag_off_since_entry,
                 recovering, timed_out, loop_started>>
  /\ UNCHANGED ledgerVars
  /\ UNCHANGED standaloneVars
  /\ UNCHANGED serverVars
  /\ UNCHANGED peerVars

\* the network thread enters _on_disconnect(rc): connected = False and the
\* call of on_disconnect(); rc is 0 for a clean close and 1 for a loss
OnDisconnect(rc) ==
  /\ loop_running
  /\ net_pc = "idle"
  /\ IF rc = 0 THEN link = "closing" ELSE link \in {"pending", "up", "none"}
  /\ link' = "none"
  /\ retained' = IF rc = 0 THEN retained ELSE AfterUncleanEnd
  /\ connect_trace' = << >>
  /\ connected' = FALSE
  /\ notified' = notified \cup {"on_disconnect"}
  /\ net_pc' = IF rc = 0 THEN "rc_clean" ELSE "rc_lost"
  /\ net_rc' = rc
  /\ flag_off_since_entry' = ~should_reconnect
  /\ UNCHANGED <<should_reconnect, reconnect_thread, thread_pc, attempted,
                 caller_pc,
                 loop_running, caller_disconnected, start_skipped, recovering,
                 timed_out, loop_started>>
  /\ UNCHANGED <<role, session_user, fernet, will, link_will,
                 offline_delivered,
                 connect_args, room, base_topic, calls>>
  /\ UNCHANGED ledgerVars
  /\ UNCHANGED standaloneVars
  /\ wire' = IF rc = 0 THEN wire ELSE wire \o Forward(WillMessages)
  /\ UNCHANGED quietVars

\* variant: the flag is not consulted
ShouldStart_ignoresFlag(flag, rc) == rc # 0

\* "self._should_reconnect and rc != 0"
ShouldStart(flag, rc) == flag /\ rc # 0

\* _on_disconnect: on_disconnect() has returned,
\* "if self._should_reconnect and rc != 0"
OnDisconnectTest ==
  /\ net_pc \in {"rc_clean", "rc_lost"}
  /\ net_pc' = IF ShouldStart(should_reconnect, net_rc) THEN "start" ELSE "idle"
  /\ recovering' = (recovering \/ ShouldStart(should_reconnect, net_rc))
  /\ UNCHANGED <<should_reconnect, connected, reconnect_thread, thread_pc,
                 attempted, caller_pc, loop_running, link, caller_disconnected,
                 start_skipped, notified, net_rc, flag_off_since_entry,
                 timed_out, loop_started>>
  /\ UNCHANGED ledgerVars
  /\ UNCHANGED standaloneVars
  /\ UNCHANGED serverVars
  /\ UNCHANGED peerVars

\* _on_disconnect: create and start the reconnect thread unless one is alive
OnDisconnectStart ==
  /\ net_pc = "start"
  /\ net_pc' = "idle"
  /\ IF NeedsNewThread
       THEN \E t \in Threads :
              /\ thread_pc[t] = "unborn"
              /\ \A o \in Threads : o < t => thread_pc[o] # "unborn"
              /\ reconnect_thread' = t
              /\ thread_pc' = [thread_pc EXCEPT ![t] = "check"]
              /\ attempted' = [attempted EXCEPT ![t] = FALSE]
              /\ start_skipped' = start_skipped
              /\ loop_started' = TRUE
       ELSE /\ start_skipped' = TRUE
            /\ UNCHANGED <<reconnect_thread, thread_pc, attempted,
                           loop_started>>
  /\ UNCHANGED <<should_reconnect, connected, caller_pc, loop_running, link,
                 caller_disconnected, notified, net_rc, flag_off_since_entry,
                 recovering, timed_out>>
  /\ UNCHANGED ledgerVars
  /\ UNCHANGED standaloneVars
  /\ UNCHANGED serverVars
  /\ UNCHANGED peerVars

\* _reconnect_loop: "while self._should_reconnect and not self.connected";
\* a thread that leaves the loop is still alive until it has returned
LoopTest(t) ==
  /\ thread_pc[t] = "check"
  /\ thread_pc' = [thread_pc EXCEPT ![t] =
                     IF should_reconnect /\ ~connected THEN "call" ELSE "exiting"]
  /\ attempted' = attempted
  /\ UNCHANGED <<should_reconnect, connected, reconnect_thread, caller_pc,
                 net_pc, loop_running, link, caller_disconnected,
                 start_skipped, notified, net_rc, flag_off_since_entry,
                 recovering, timed_out, loop_started>>
  /\ UNCHANGED ledgerVars
  /\ UNCHANGED standaloneVars
  /\ UNCHANGED serverVars
  /\ UNCHANGED peerVars

\* _reconnect_loop returns and the thread ends
LoopExit(t) ==
  /\ thread_pc[t] = "exiting"
  /\ thread_pc' = [thread_pc EXCEPT ![t] = "done"]
  /\ attempted' = attempted
  /\ UNCHANGED <<should_reconnect, connected, reconnect_thread, caller_pc,
                 net_pc, loop_running, link, caller_disconnected,
                 start_skipped, notified, net_rc, flag_off_since_entry,
                 recovering, timed_out, loop_started>>
  /\ UNCHANGED ledgerVars
  /\ UNCHANGED standaloneVars
  /\ UNCHANGED serverVars
  /\ UNCHANGED peerVars

\* _reconnect_loop: self.client.reconnect(), which raises or opens a new
\* connection to the broker
LoopReconnect(t, raises) ==
  /\ thread_pc[t] = "call"
  /\ attempted' = [attempted EXCEPT ![t] = TRUE]
  /\ IF raises
       THEN /\ thread_pc' = [thread_pc EXCEPT ![t] = "sleep"]
            /\ UNCHANGED <<link, link_will, retained>>
       ELSE /\ thread_pc' = [thread_pc EXCEPT ![t] = "check"]
            /\ link' = "pending"
            /\ link_will' = will
            /\ retained' = AfterUncleanEnd
  /\ UNCHANGED <<should_reconnect, connected, reconnect_thread, caller_pc,
                 net_pc, loop_running, caller_disconnected, start_skipped,
                 notified, net_rc, flag_off_since_entry, recovering,
                 timed_out, loop_started>>
  /\ UNCHANGED <<role, session_user, fernet, will, offline_delivered,
                 connect_trace,
                 connect_args, room, base_topic, calls>>
  /\ UNCHANGED ledgerVars
  /\ UNCHANGED standaloneVars
  /\ wire' = IF raises THEN wire ELSE wire \o Forward(WillMessages)
  /\ UNCHANGED quietVars

\* _reconnect_loop: time.sleep(3) is over
LoopSleep(t) ==
  /\ thread_pc[t] = "sleep"
  /\ thread_pc' = [thread_pc EXCEPT ![t] = "check"]
  /\ attempted' = [attempted EXCEPT ![t] = FALSE]
  /\ UNCHANGED <<should_reconnect, connected, reconnect_thread, caller_pc,
                 net_pc, loop_running, link, caller_disconnected,
                 start_skipped, notified, net_rc, flag_off_since_entry,
                 recovering, timed_out, loop_started>>
  /\ UNCHANGED ledgerVars
  /\ UNCHANGED standaloneVars
  /\ UNCHANGED serverVars
  /\ UNCHANGED peerVars

\* publish_action(action): the encrypted {user, action} goes to
\* <base>/presentation with QoS 1, not retained, then the call of
\* on_publish; paho keeps the message until the broker acknowledges it
PublishAction(action) ==
  /\ role = "client"
  /\ caller_pc = "idle"
  /\ connected /\ link = "up"
  /\ calls' = PublishActionCalls(base_topic, session_user, fernet, action)
  /\ wire' = wire \o Forward(Published(calls'))
  /\ inflight' = Published(calls')[1].token
  /\ action_token' = Published(calls')[1].token
  /\ published' = published + 1
  /\ notified' = notified \cup {"on_publish action"}
  /\ caller_pc' = "on_publish_action"
  /\ UNCHANGED <<should_reconnect, connected, reconnect_thread, thread_pc,
                 attempted, net_pc, loop_running, link, caller_disconnected,
                 start_skipped, net_rc, flag_off_since_entry, recovering,
                 timed_out, loop_started>>
  /\ UNCHANGED <<role, session_user, fernet, will, link_will, retained,
                 offline_delivered, connect_trace, connect_args, room,
                 base_topic>>
  /\ UNCHANGED <<srv_fernet, srv_subscribed, ui_queue, client_alive, resends,
                 decrypt_failed>>
  /\ UNCHANGED ledgerVars
  /\ UNCHANGED standaloneVars

\* the broker's PUBACK for the published action reaches the client
Puback ==
  /\ inflight # NoToken
  /\ link = "up"
  /\ loop_running
  /\ inflight' = NoToken
  /\ UNCHANGED <<srv_fernet, srv_subscribed, wire, ui_queue, client_alive,
                 action_token, published, resends, decrypt_failed>>
  /\ UNCHANGED <<should_reconnect, connected, reconnect_thread, thread_pc,
                 attempted,
                 caller_pc, net_pc, loop_running, link, caller_disconnected,
                 start_skipped, notified, net_rc, flag_off_since_entry,
                 recovering, timed_out, loop_started>>
  /\ UNCHANGED peerVars
  /\ UNCHANGED ledgerVars
  /\ UNCHANGED standaloneVars

\* the client process is killed while connected: nothing of it runs any
\* more, and the broker publishes the will registered by connect()
ClientKilled ==
  /\ client_alive
  /\ role = "client"
  /\ link = "up"
  /\ client_alive' = FALSE
  /\ link' = "none"
  /\ loop_running' = FALSE
  /\ retained' = AfterUncleanEnd
  /\ wire' = wire \o Forward(WillMessages)
  /\ UNCHANGED <<should_reconnect, connected, reconnect_thread, thread_pc,
                 attempted,
                 caller_pc, net_pc, caller_disconnected, start_skipped,
                 notified, net_rc, flag_off_since_entry, recovering,
                 timed_out, loop_started>>
  /\ UNCHANGED <<role, session_user, fernet, will, link_will,
                 offline_delivered, connect_trace, connect_args, room,
                 base_topic, calls>>
  /\ UNCHANGED <<srv_fernet, srv_subscribed, ui_queue, inflight, action_token,
                 published, resends, decrypt_failed>>
  /\ UNCHANGED ledgerVars
  /\ UNCHANGED standaloneVars

(***************************************************************************)
(* The listening server: PresentationMqttServer (mqtt_server.py) feeding   *)
(* ServerListenerApp (ui_server.py)                                        *)
(***************************************************************************)
\* variant: the key of the token is not compared
Decrypts_anyKey(k, tok) == k # NoKey /\ ~tok.tampered

\* self.fernet.decrypt(msg.payload) returns: the token was made with the
\* same key and is intact (a missing key raises as well)
Decrypts(k, tok) == k # NoKey /\ tok.key = k /\ ~tok.tampered

\* variant: the text of the token is handed up whatever decrypt says
MessagePayload_raw(k, tok) == tok.text

\* _on_message: the decrypted text, or the placeholder from the except
\* branch
MessagePayload(k, tok) == IF Decrypts(k, tok) THEN tok.text ELSE Placeholder

\* what _on_message(topic, token) schedules: on_message is the UI's
\* _on_mqtt_message, which queues _handle_message(topic, payload) with
\* root.after; token and key are kept as history
Scheduled(topic, tok) ==
  [topic |-> topic, payload |-> MessagePayload(srv_fernet, tok),
   token |-> tok, fernet |-> srv_fernet]

\* variant: the network thread runs _handle_message itself instead of
\* scheduling it
OnMessage_direct(topic, tok) ==
  /\ srv_subscribed
  /\ HandleMessage(topic, MessagePayload(srv_fernet, tok))
  /\ decrypt_failed' = (decrypt_failed \/ ~Decrypts(srv_fernet, tok))
  /\ UNCHANGED <<srv_fernet, srv_subscribed, ui_queue, inflight, client_alive,
                 action_token, published, resends>>

\* PresentationMqttServer._on_message runs on the network thread
OnMessage(topic, tok) ==
  /\ srv_subscribed
  /\ Len(ui_queue) < MaxQueue
  /\ ui_queue' = Append(ui_queue, Scheduled(topic, tok))
  /\ decrypt_failed' = (decrypt_failed \/ ~Decrypts(srv_fernet, tok))
  /\ UNCHANGED <<srv_fernet, srv_subscribed, inflight, client_alive,
                 action_token, published, resends>>
  /\ UNCHANGED ledgerVars
  /\ UNCHANGED mqttVars
  /\ UNCHANGED standaloneVars

\* the Tk main loop runs the oldest scheduled callback: _handle_message
HandleQueued ==
  /\ ui_queue # << >>
  /\ HandleMessage(ui_queue[1].topic, ui_queue[1].payload)
  /\ ui_queue' = Tail(ui_queue)
  /\ UNCHANGED <<srv_fernet, srv_subscribed, wire, inflight, client_alive,
                 action_token, published, resends, decrypt_failed>>

\* PresentationMqttServer.connect(room, pwd) through _on_connect: key,
\* handshake, subscribe to <base>/#; the broker sends the retained status
ServerConnect(pwd) ==
  /\ ~srv_subscribed
  /\ srv_fernet' = ServerGetFernet(pwd)
  /\ srv_subscribed' = TRUE
  /\ wire' = IF retained[StatusTopic] # NoToken
                THEN <<[topic |-> StatusTopic, token |-> retained[StatusTopic],
                        qos |-> 1, retain |-> TRUE]>>
                ELSE << >>
  /\ UNCHANGED <<ui_queue, inflight, client_alive, action_token, published,
                 resends, decrypt_failed>>
  /\ UNCHANGED ledgerVars
  /\ UNCHANGED mqttVars
  /\ UNCHANGED standaloneVars

\* the operator's on_disconnect: PresentationMqttServer.disconnect(), then
\* _on_mqtt_disconnect on the UI: the subscription ends; the key, the
\* callbacks already scheduled and the rows stay
ServerDisconnect ==
  /\ srv_subscribed
  /\ srv_subscribed' = FALSE
  /\ wire' = << >>
  /\ stale' = DOMAIN user_rows
  /\ UNCHANGED <<srv_fernet, ui_queue, inflight, client_alive, action_token,
                 published, resends, decrypt_failed>>
  /\ UNCHANGED ledgerVars
  /\ UNCHANGED mqttVars
  /\ UNCHANGED <<cliVars, cipherVars, upcalls, online_peers, ghost_will>>

(***************************************************************************)
(* Command line: presentation-clicker with its subcommands (cli.py), the   *)
(* main() that create_main_function makes for the client and the listener  *)
(* UI (ui_base.py, cli_common.py), and the main() of the two packaged UIs. *)
(***************************************************************************)
\* an int flag that was not given (args.port is None), and one that was
NoInt == << >>
Some(n) == <<n>>

\* the commands a user can run
Subcommands == {"presentation-clicker client", "presentation-clicker server"}
Entries ==
  Subcommands
    \cup {"client ui", "listener ui", "packaged client", "packaged listener"}

\* flag values a user can type; argparse has turned --port and --keepalive
\* into ints (type=int)
Flags ==
  [host : {None, "", "broker"},
   port : {NoInt, Some(-1), Some(0), Some(1), Some(65535), Some(65536)},
   keepalive : {NoInt, Some(-1), Some(0), Some(60)},
   transport : {None, "tcp", "websockets", "udp"},
   theme : {None, "darkly"},
   open_config_dir : BOOLEAN]
NoFlags ==
  [host |-> None, port |-> NoInt, keepalive |-> NoInt, transport |-> None,
   theme |-> None, open_config_dir |-> FALSE]

\* the errors an invocation prints: the usage error of argparse and the
\* lines of validate_args
ErrorLines ==
  {"usage: invalid choice", "Error: --host", "Error: --port",
   "Error: --keepalive", "Error: --transport"}

\* parser.parse_args(): choices=['tcp', 'websockets'] makes argparse print a
\* usage error and exit; None when the flags parse
ParseArgs(argv) ==
  IF argv.transport \notin {None, "tcp", "websockets"}
    THEN "usage: invalid choice"
    ELSE None

\* truthiness of an int-or-None value, as in "if args.port:"
IntTruthy(v) == v # NoInt /\ v[1] # 0

\* cli.main: the sys.argv built for the main() of the UI; str(args.port) is
\* read back as the same int
Forwarded(args) ==
  [host |-> IF Truthy(args.host) THEN args.host ELSE None,
   port |-> IF IntTruthy(args.port) THEN args.port ELSE NoInt,
   keepalive |-> IF IntTruthy(args.keepalive) THEN args.keepalive ELSE NoInt,
   open_config_dir |-> args.open_config_dir,
   transport |-> IF Truthy(args.transport) THEN args.transport ELSE None,
   theme |-> IF Truthy(args.theme) THEN args.theme ELSE None]

\* validate_args(args): the line it prints before it returns False, None
\* when it returns True (the hosts here hold no blanks)
ValidateArgs(args) ==
  IF args.host # None /\ args.host = ""
    THEN "Error: --host"
    ELSE IF args.port # NoInt
              /\ ~(1 <= args.port[1] /\ args.port[1] <= 65535)
      THEN "Error: --port"
      ELSE IF args.keepalive # NoInt /\ args.keepalive[1] <= 0
        THEN "Error: --keepalive"
        ELSE IF args.transport # None
                  /\ args.transport \notin {"tcp", "websockets"}
          THEN "Error: --transport"
          ELSE None

\* handle_config_operations: "if any config argument is provided"
ConfigGiven(args) ==
  \/ args.host # None
  \/ args.port # NoInt
  \/ args.keepalive # NoInt
  \/ args.transport # None
  \/ args.theme # None

\* main() of a UI from parse_args() on: it ends with an error, after writing
\* the config, after opening the config folder, or it opens the window
RunMain ==
  /\ cli_pc' = IF /\ ParseArgs(sys_argv) = None
                  /\ ValidateArgs(sys_argv) = None
                  /\ ~ConfigGiven(sys_argv)
                  /\ ~sys_argv.open_config_dir
                 THEN "running"
                 ELSE "exited"
  /\ printed' = IF ParseArgs(sys_argv) # None
                  THEN ParseArgs(sys_argv)
                  ELSE IF ValidateArgs(sys_argv) # None
                    THEN ValidateArgs(sys_argv)
                    ELSE IF ConfigGiven(sys_argv)
                      THEN "Config updated"
                      ELSE printed
  /\ config_written' = (/\ ParseArgs(sys_argv) = None
                        /\ ValidateArgs(sys_argv) = None
                        /\ ConfigGiven(sys_argv))
  \* "finally: sys.argv = original_argv" of cli.main once main() is back
  /\ sys_argv' = IF cli_pc' = "exited" THEN cli_args ELSE sys_argv
  /\ UNCHANGED <<entry, cli_args>>
  /\ UNCHANGED <<ledgerVars, mqttVars, serverVars, cipherVars,
                 observerVars>>

\* presentation-clicker client|server: cli.main parses the flags and hands
\* the ones that are truthy to the main() of the UI
CliMain ==
  /\ entry \in Subcommands
  /\ cli_pc = "start"
  /\ IF ParseArgs(sys_argv) # None
       THEN /\ printed' = ParseArgs(sys_argv)
            /\ cli_pc' = "exited"
            /\ sys_argv' = sys_argv
       ELSE /\ printed' = printed
            /\ cli_pc' = "main"
            /\ sys_argv' = Forwarded(sys_argv)
  /\ UNCHANGED <<entry, cli_args, config_written>>
  /\ UNCHANGED <<ledgerVars, mqttVars, serverVars, cipherVars,
                 observerVars>>

\* client_main, the main() of presentation_clicker/client/ui_client.py, run
\* by the subcommand or on its own
ClientMain ==
  /\ \/ entry = "presentation-clicker client" /\ cli_pc = "main"
     \/ entry = "client ui" /\ cli_pc = "start"
  /\ RunMain

\* server_main, the main() of presentation_clicker/server/ui_server.py
ServerMain ==
  /\ entry = "presentation-clicker server"
  /\ cli_pc = "main"
  /\ RunMain

\* the main() of presentation_clicker_listener/ui_server.py
ListenerMain ==
  /\ entry = "listener ui"
  /\ cli_pc = "start"
  /\ RunMain

\* the main() of the packaged client and of the packaged listener: the same
\* checks written out in the function, in the same order
PackagedMain ==
  /\ entry \in {"packaged client", "packaged listener"}
  /\ cli_pc = "start"
  /\ RunMain

(***************************************************************************)
(* Cipher: a client and a server derive their keys from the passwords      *)
(* typed into them, the client encrypts a text as publish_encrypted does,  *)
(* the server decrypts it as _on_message does.                             *)
(***************************************************************************)
\* the texts of at most n characters
Texts(chars, n) == UNION {[1..k -> chars] : k \in 0..n}

\* PKCS7 for the 16-byte block of AES: between 1 and 16 bytes are added,
\* each holding their number
Pad(bytes) ==
  LET n == 16 - (Len(bytes) % 16)
  IN bytes \o [i \in 1..n |-> n]

\* variant: one byte is taken off, whatever the last byte says
Unpad_oneByte(bytes) == SubSeq(bytes, 1, Len(bytes) - 1)

\* the unpadder: the last byte says how many bytes to take off
Unpad(bytes) == SubSeq(bytes, 1, Len(bytes) - bytes[Len(bytes)])

\* Fernet.encrypt(data): the padded data under AES-CBC with a fresh IV,
\* signed; a token that names the key it was made with
FernetEncrypt(k, iv, data) ==
  [key |-> k, iv |-> iv, tampered |-> FALSE, padded |-> Pad(data)]

NoCipher == [key |-> NoKey, iv |-> 0, tampered |-> FALSE, padded |-> << >>]
NotOpened == [status |-> "none", text |-> << >>]

\* _on_message: fernet.decrypt(msg.payload).decode(), or the text
\* "[Decryption failed: ...]" from the except branch
Received(k, tok) ==
  IF Decrypts(k, tok)
    THEN [status |-> "decrypted", text |-> Utf8Decode(Unpad(tok.padded))]
    ELSE [status |-> "failed", text |-> << >>]

\* get_fernet(pwd) in the client's connect()
ClientDerive ==
  /\ key_client = NoKey
  /\ key_client' = GetFernet(pwd_client)
  /\ UNCHANGED <<pwd_client, pwd_server, message, key_server, token, opened>>
  /\ UNCHANGED <<ledgerVars, mqttVars, serverVars, cliVars,
                 observerVars>>

\* self._get_fernet(pwd) in the server's connect()
ServerDerive ==
  /\ key_server = NoKey
  /\ key_server' = ServerGetFernet(pwd_server)
  /\ UNCHANGED <<pwd_client, pwd_server, message, key_client, token, opened>>
  /\ UNCHANGED <<ledgerVars, mqttVars, serverVars, cliVars,
                 observerVars>>

\* publish_encrypted: fernet.encrypt(json.dumps(payload).encode())
ClientEncrypt ==
  /\ key_client # NoKey
  /\ token = NoCipher
  \* the initialisation vector is os.urandom(16): one of two here
  /\ \E iv \in {1, 2} :
       token' = FernetEncrypt(key_client, iv, Utf8(message))
  /\ UNCHANGED <<pwd_client, pwd_server, message, key_client, key_server,
                 opened>>
  /\ UNCHANGED <<ledgerVars, mqttVars, serverVars, cliVars,
                 observerVars>>

\* _on_message of the server with the client's token
ServerDecrypt ==
  /\ key_server # NoKey
  /\ token # NoCipher
  /\ opened = NotOpened
  /\ opened' = Received(key_server, token)
  /\ UNCHANGED <<pwd_client, pwd_server, message, key_client, key_server,
                 token>>
  /\ UNCHANGED <<ledgerVars, mqttVars, serverVars, cliVars,
                 observerVars>>

(***************************************************************************)
(* Inbound messages of the session handler (mqtt_base.py)                  *)
(***************************************************************************)
\* BaseMqttHandler._on_message on the network thread: decrypt and the call
\* on_message(topic, decrypted) are inside one try, and the except branch
\* calls on_message(topic, placeholder); raises says that the callback
\* raised when it was handed the decrypted text
BaseOnMessage(topic, tok, raises) ==
  /\ loop_running
  /\ net_pc = "idle"
  /\ link = "up"
  /\ upcalls' = LET Up(payload) == [topic |-> topic, payload |-> payload]
                IN IF Decrypts(fernet, tok)
                     THEN IF raises THEN <<Up(tok.text), Up(Placeholder)>>
                                    ELSE <<Up(tok.text)>>
                     ELSE <<Up(Placeholder)>>
  /\ UNCHANGED <<ledgerVars, mqttVars, serverVars>>
  /\ UNCHANGED <<cliVars, cipherVars, stale, online_peers, ghost_will>>

InitLedger ==
  /\ user_rows = << >>
  /\ keys = << >>
  /\ last_log = LogLine("none", None)
  /\ went_offline = {}

InitMqtt(r) ==
  /\ role = r
  /\ session_user = None
  /\ fernet = NoKey
  /\ will = NoWill
  /\ link_will = NoWill
  /\ retained = [t \in PresenceTopics |-> NoToken]
  /\ offline_delivered = FALSE
  /\ connect_trace = << >>
  /\ connect_args = <<None, None, None>>
  /\ room = None
  /\ base_topic = NoTopic
  /\ calls = << >>
  /\ should_reconnect = TRUE
  /\ connected = FALSE
  /\ reconnect_thread = 0
  /\ thread_pc = [t \in 1..MaxThreads |-> "unborn"]
  /\ attempted = [t \in 1..MaxThreads |-> FALSE]
  /\ caller_pc = "idle"
  /\ net_pc = "idle"
  /\ loop_running = FALSE
  /\ link = "none"
  /\ caller_disconnected = FALSE
  /\ start_skipped = FALSE
  /\ notified = {}
  /\ net_rc = 0
  /\ flag_off_since_entry = FALSE
  /\ recovering = FALSE
  /\ timed_out = FALSE
  /\ loop_started = FALSE

InitServer ==
  /\ srv_fernet = NoKey
  /\ srv_subscribed = FALSE
  /\ wire = << >>
  /\ ui_queue = << >>
  /\ inflight = NoToken
  /\ client_alive = TRUE
  /\ action_token = NoToken
  /\ published = 0
  /\ resends = 0
  /\ decrypt_failed = FALSE

\* the handlers on their own: no command was typed, no cipher run is made
InitStandalone ==
  /\ entry = None
  /\ cli_args = NoFlags
  /\ sys_argv = NoFlags
  /\ cli_pc = "idle"
  /\ printed = None
  /\ config_written = FALSE
  /\ pwd_client = << >>
  /\ pwd_server = << >>
  /\ message = << >>
  /\ key_client = NoKey
  /\ key_server = NoKey
  /\ token = NoCipher
  /\ opened = NotOpened
  /\ stale = {}
  /\ upcalls = << >>
  /\ online_peers = {}
  /\ ghost_will = NoWill

Init == InitLedger /\ InitMqtt("client") /\ InitServer /\ InitStandalone

\* the handler is a PresentationMqttClient or a PresentationMqttServer
InitAnyRole ==
  /\ InitLedger
  /\ InitServer
  /\ InitStandalone
  /\ \E r \in Roles : InitMqtt(r)

\* the UI handles a delivery; the run ends once MaxKeys keys were sent
ReceiveMessage ==
  /\ \E d \in Deliveries : HandleMessage(d[1], d[2])
  /\ Len(keys') <= MaxKeys
  /\ UNCHANGED serverVars

ClickTreeview ==
  /\ \E c \in Clicks(DOMAIN user_rows) : OnTreeviewClick(c[1], c[2], c[3])
  /\ UNCHANGED serverVars

NextLedger == ReceiveMessage \/ ClickTreeview

SpecLedger == Init /\ [][NextLedger]_vars

BrokerDisconnects == \E rc \in {0, 1} : OnDisconnect(rc)
ReconnectThread ==
  \E t \in Threads :
    \/ LoopTest(t)
    \/ \E raises \in BOOLEAN : LoopReconnect(t, raises)
    \/ LoopSleep(t)
    \/ LoopExit(t)

Connect == \E a \in ConnectArgs : ConnectPrepare(a[1], a[2], a[3])

NextMqtt ==
  \/ Connect
  \/ ConnectBegin
  \/ ConnectReturn
  \/ ConnectTimeout
  \/ ConnectAbort
  \/ DisconnectBegin
  \/ OnPublishReturn
  \/ DisconnectClearFlag
  \/ DisconnectTransport
  \/ ServerDisconnectBegin
  \/ ServerLoopStop
  \/ ServerDisconnectTransport
  \/ OnConnect
  \/ OnConnectReturn
  \/ BrokerDisconnects
  \/ OnDisconnectTest
  \/ OnDisconnectStart
  \/ ReconnectThread

SpecMqtt == InitAnyRole /\ [][NextMqtt]_vars

ConnectRoom == \E a \in RoomArgs : ConnectPrepare(a[1], a[2], a[3])

\* a handler of either role that is connected to one room after the other:
\* connect (the UI offers it while the caller is not connected), handshake,
\* disconnect, loss, and the reconnect loop of the first loss
NextRooms ==
  \/ ~connected /\ ConnectRoom
  \/ ConnectBegin
  \/ ConnectReturn
  \/ DisconnectBegin
  \/ OnPublishReturn
  \/ DisconnectClearFlag
  \/ DisconnectTransport
  \/ ServerDisconnectBegin
  \/ ServerLoopStop
  \/ ServerDisconnectTransport
  \/ OnConnect
  \/ OnConnectReturn
  \/ BrokerDisconnects
  \/ OnDisconnectTest
  \/ OnDisconnectStart /\ reconnect_thread' <= 1
  \/ LoopTest(1)
  \/ (\E raises \in BOOLEAN : LoopReconnect(1, raises))
  \/ LoopSleep(1)
  \/ LoopExit(1)

SpecRooms == InitAnyRole /\ [][NextRooms]_vars

\* a client handler that connects, receives what the broker sends for
\* <base>/# and disconnects
NextInbound ==
  \/ ~connected /\ Connect
  \/ ConnectBegin
  \/ ConnectReturn
  \/ OnConnect
  \/ OnConnectReturn
  \/ (\E topic \in {StatusTopic, PresentationTopic}, tok \in ArrivingTokens,
         raises \in BOOLEAN : BaseOnMessage(topic, tok, raises))
  \/ DisconnectBegin
  \/ OnPublishReturn
  \/ DisconnectClearFlag
  \/ DisconnectTransport
  \/ OnDisconnect(0)
  \/ OnDisconnectTest

SpecInbound == Init /\ [][NextInbound]_vars

(***************************************************************************)
(* Packaged client: PresentationMqttClient of                              *)
(* presentation_clicker_client/mqtt_client.py. Its connect_async ...       *)
(* wait, _on_connect, _on_disconnect and _reconnect_loop are the lines of  *)
(* the handler above; connect registers another will, and disconnect is    *)
(* the three lines of the packaged server's disconnect.                    *)
(***************************************************************************)
\* connect(user, room, pwd) up to connect_async: user, room, base topic and
\* key are stored; the will is {"user": user, "status": "offline"},
\* encrypted, on <base>/status with qos 1 and retain
PackagedConnectPrepare(u, rm, pwd) ==
  /\ role = "client"
  /\ caller_pc = "idle"
  /\ caller_pc' = "prepared"
  /\ room' = rm
  /\ base_topic' = GetBaseTopic(rm)
  /\ fernet' = GetFernet(pwd)
  /\ session_user' = u
  /\ will' = [topic |-> StatusOf(GetBaseTopic(rm)),
              payload |-> Encrypt(GetFernet(pwd), StatusJson(u, "offline")),
              qos |-> 1, retain |-> TRUE]
  /\ calls' = <<Request("will_set", will'.topic, will'.payload, will'.qos,
                        will'.retain)>>
  /\ connect_args' = <<u, rm, pwd>>
  /\ UNCHANGED <<should_reconnect, connected, reconnect_thread, thread_pc,
                 attempted, net_pc, loop_running, link, caller_disconnected,
                 start_skipped, notified, net_rc, flag_off_since_entry,
                 recovering, timed_out, loop_started>>
  /\ UNCHANGED <<role, link_will, retained, offline_delivered, connect_trace>>
  /\ UNCHANGED ledgerVars
  /\ UNCHANGED standaloneVars
  /\ UNCHANGED serverVars

\* disconnect(): self._should_reconnect = False; loop_stop() and
\* self.client.disconnect() follow as ServerLoopStop and
\* ServerDisconnectTransport
PackagedDisconnectBegin ==
  /\ role = "client"
  /\ caller_pc = "idle"
  /\ should_reconnect' = FALSE
  /\ caller_pc' = "srv_flag_cleared"
  /\ recovering' = FALSE
  /\ UNCHANGED <<connected, reconnect_thread, thread_pc, attempted, net_pc,
                 loop_running, link, caller_disconnected, start_skipped,
                 notified, net_rc, flag_off_since_entry, timed_out,
                 loop_started>>
  /\ UNCHANGED ledgerVars
  /\ UNCHANGED standaloneVars
  /\ UNCHANGED serverVars
  /\ UNCHANGED peerVars

\* the packaged client: connect (the UI offers it while disconnected),
\* handshake, timeout, disconnect, loss, and the reconnect loop of the first
\* loss
NextPackagedClient ==
  \/ ~connected /\ (\E a \in ConnectArgs :
                      PackagedConnectPrepare(a[1], a[2], a[3]))
  \/ ConnectBegin
  \/ ConnectReturn
  \/ ConnectTimeout
  \/ ConnectAbort
  \/ OnConnect
  \/ OnConnectReturn
  \/ PackagedDisconnectBegin
  \/ ServerLoopStop
  \/ ServerDisconnectTransport
  \/ OnDisconnect(1)
  \/ OnDisconnectTest
  \/ OnDisconnectStart /\ reconnect_thread' <= 1
  \/ LoopTest(1)
  \/ (\E raises \in BOOLEAN : LoopReconnect(1, raises))
  \/ LoopSleep(1)
  \/ LoopExit(1)

SpecPackagedClient == Init /\ [][NextPackagedClient]_vars

\* room codes typed into the UIs: two plain ones, one with a slash, and the
\* wildcard "+"
RoomCodes == Rooms \cup {"ROOM/x", "+"}

\* broker: a client of room r has published tok on its status topic, and the
\* broker sends it to the handler, whose subscription <base>/# it matches
BrokerSends(r, tok, raises) ==
  /\ Matches(base_topic, StatusOf(GetBaseTopic(r)))
  /\ BaseOnMessage(StatusOf(GetBaseTopic(r)), tok, raises)

\* a handler of either role connects to a room (a client does not get past
\* a wildcard, which paho refuses to publish on) and receives what the
\* broker sends it of the clients of every room
NextIsolation ==
  \/ \E rm \in RoomCodes :
       /\ ~connected
       /\ role = "server" \/ rm # "+"
       /\ ConnectPrepare("alice", rm, Pw1)
  \/ ConnectBegin
  \/ ConnectReturn
  \/ OnConnect
  \/ OnConnectReturn
  \/ \E r \in RoomCodes \ {"+"}, tok \in ArrivingTokens, raises \in BOOLEAN :
       BrokerSends(r, tok, raises)

SpecIsolation == InitAnyRole /\ [][NextIsolation]_vars

\* a token arrives from the broker on one of the two topics
Arrive ==
  \E topic \in {StatusTopic, PresentationTopic}, tok \in ArrivingTokens :
    OnMessage(topic, tok) /\ UNCHANGED wire

ServerConnects == \E pwd \in Passwords : ServerConnect(pwd)

NextServer ==
  \/ ServerConnects
  \/ ServerDisconnect
  \/ Arrive
  \/ HandleQueued /\ Len(keys') <= MaxKeys
  \/ ClickTreeview

SpecServer == Init /\ [][NextServer]_vars

\* the broker delivers its oldest message for the server
BrokerDelivers ==
  /\ wire # << >>
  /\ OnMessage(wire[1].topic, wire[1].token)
  /\ wire' = Tail(wire)

\* another client of the room publishes its presence: publish_status(status)
\* from its _on_connect_handler ("online") or its disconnect ("offline"), a
\* retained QoS 1 message on <base>/status made with the room's key
PeerPublishes(u, status) ==
  /\ (status = "online") = (u \notin online_peers)
  /\ Len(wire) < MaxWire
  /\ LET m == PublishEncrypted(GetFernet(Pw1), StatusTopic,
                               StatusJson(u, status), 1, TRUE)
     IN /\ retained' = Retain(retained, <<m>>)
        /\ wire' = wire \o Forward(<<m>>)
  /\ online_peers' = IF status = "online" THEN online_peers \cup {u}
                                          ELSE online_peers \ {u}
  /\ UNCHANGED <<should_reconnect, connected, reconnect_thread, thread_pc,
                 attempted, caller_pc, net_pc, loop_running, link,
                 caller_disconnected, start_skipped, notified, net_rc,
                 flag_off_since_entry, recovering, timed_out, loop_started>>
  /\ UNCHANGED <<role, session_user, fernet, will, link_will,
                 offline_delivered, connect_trace, connect_args, room,
                 base_topic, calls>>
  /\ UNCHANGED <<ledgerVars, quietVars>>
  /\ UNCHANGED <<cliVars, cipherVars, stale, upcalls, ghost_will>>

\* the clients of a room come and go while the server connects with the
\* room's password and handles what the broker delivers
NextPresence ==
  \/ (\E a \in ConnectArgs, status \in {"online", "offline"} :
        PeerPublishes(a[1], status))
  \/ ServerConnect(Pw1)
  \/ BrokerDelivers
  \/ HandleQueued

SpecPresence == Init /\ [][NextPresence]_vars

\* the network thread enters _on_disconnect(rc) with rc # 0 for a loss the
\* broker has not seen (the client's socket failed, the broker waits for its
\* keepalive timer): connected = False and the call of on_disconnect(); the
\* will stays with the broker
LossUnseen ==
  /\ loop_running
  /\ net_pc = "idle"
  /\ link = "up"
  /\ ghost_will = NoWill
  /\ link' = "none"
  /\ ghost_will' = link_will
  /\ connect_trace' = << >>
  /\ connected' = FALSE
  /\ notified' = notified \cup {"on_disconnect"}
  /\ net_pc' = "rc_lost"
  /\ net_rc' = 1
  /\ flag_off_since_entry' = ~should_reconnect
  /\ UNCHANGED <<should_reconnect, reconnect_thread, thread_pc, attempted,
                 caller_pc, loop_running, caller_disconnected, start_skipped,
                 recovering, timed_out, loop_started>>
  /\ UNCHANGED <<role, session_user, fernet, will, link_will, retained,
                 offline_delivered, connect_args, room, base_topic, calls>>
  /\ UNCHANGED <<ledgerVars, serverVars>>
  /\ UNCHANGED <<cliVars, cipherVars, stale, upcalls, online_peers>>

\* broker: the keepalive timer of the connection it still holds runs out,
\* and it publishes the will that came with that connection
BrokerDropsGhost ==
  /\ ghost_will # NoWill
  /\ Len(wire) < MaxWire
  /\ ghost_will' = NoWill
  /\ LET m == [topic |-> ghost_will.topic, token |-> ghost_will.payload,
               qos |-> ghost_will.qos, retain |-> ghost_will.retain]
     IN /\ retained' = Retain(retained, <<m>>)
        /\ wire' = wire \o Forward(<<m>>)
  /\ UNCHANGED <<should_reconnect, connected, reconnect_thread, thread_pc,
                 attempted, caller_pc, net_pc, loop_running, link,
                 caller_disconnected, start_skipped, notified, net_rc,
                 flag_off_since_entry, recovering, timed_out, loop_started>>
  /\ UNCHANGED <<role, session_user, fernet, will, link_will,
                 offline_delivered, connect_trace, connect_args, room,
                 base_topic, calls>>
  /\ UNCHANGED <<ledgerVars, quietVars>>
  /\ UNCHANGED <<cliVars, cipherVars, stale, upcalls, online_peers>>

\* the client process runs, and the broker's queue has room for what one of
\* its steps publishes
ClientRuns == client_alive /\ Len(wire) + 2 <= MaxWire

\* a client that loses its transport and is reconnected by the loop of its
\* first loss, the broker, and the server handling what the broker delivers
NextRecover ==
  \/ ClientRuns /\ ~connected /\ ConnectPrepare("alice", "ROOM", Pw1)
  \/ ClientRuns /\ ConnectBegin
  \/ ConnectReturn
  \/ ClientRuns /\ OnConnect
  \/ OnConnectReturn
  \/ ClientRuns /\ OnDisconnect(1)
  \/ LossUnseen
  \/ OnDisconnectTest
  \/ OnDisconnectStart /\ reconnect_thread' <= 1
  \/ LoopTest(1)
  \/ ClientRuns /\ (\E raises \in BOOLEAN : LoopReconnect(1, raises))
  \/ LoopSleep(1)
  \/ LoopExit(1)
  \/ BrokerDropsGhost
  \/ ServerConnect(Pw1)
  \/ BrokerDelivers
  \/ HandleQueued
  \/ ClickTreeview

SpecRecover == Init /\ [][NextRecover]_vars

\* client, broker and server: the client connects (the UI offers it while
\* disconnected) and disconnects with alice and the room's password, the
\* handshake, the clean close, one published action with paho's resends, the
\* kill; the server connects with the same password and handles what the
\* broker delivers
NextE2E ==
  \/ ClientRuns /\ ~connected /\ ConnectPrepare("alice", "ROOM", Pw1)
  \/ ClientRuns /\ ConnectBegin
  \/ ClientRuns /\ ConnectReturn
  \/ ClientRuns /\ (inflight = NoToken \/ resends < MaxResends) /\ OnConnect
  \/ ClientRuns /\ OnConnectReturn
  \/ ClientRuns /\ DisconnectBegin
  \/ ClientRuns /\ OnPublishReturn
  \/ ClientRuns /\ DisconnectClearFlag
  \/ ClientRuns /\ DisconnectTransport
  \/ ClientRuns /\ OnDisconnect(0)
  \/ ClientRuns /\ OnDisconnectTest
  \/ ClientRuns /\ published < MaxPublishes /\ PublishAction("next")
  \/ ClientRuns /\ Puback
  \/ Len(wire) < MaxWire /\ ClientKilled
  \/ ServerConnect(Pw1)
  \/ BrokerDelivers
  \/ HandleQueued
  \/ ClickTreeview

\* the broker keeps delivering and the Tk main loop keeps running what was
\* scheduled
SpecE2E ==
  /\ Init
  /\ [][NextE2E]_vars
  /\ WF_vars(BrokerDelivers)
  /\ WF_vars(HandleQueued)

(***************************************************************************)
(* Properties of the ledger and the router                                 *)
(***************************************************************************)
NavActions == {"next", "previous"}
ControlActions == {"start", "end", "blackout"}
DefaultEntry == [nav |-> TRUE, control |-> FALSE]

\* the key that realises each abstract effect: advance, retreat, beginShow,
\* endShow, toggleBlackout
EffectKey(action) ==
  CASE action = "next" -> "right"
    [] action = "previous" -> "left"
    [] action = "start" -> "shift+f5"
    [] action = "end" -> "end"
    [] action = "blackout" -> "b"
    [] OTHER -> "?"

\* the step handled an action message and did not honour it
NotHonoured == keys' = keys /\ last_log'.kind # "allowed"

\* C1: an action message whose user has no ledger entry is denied, whatever
\* the action and the ledger: no key is sent and nothing is reported allowed.
C1_AbsentUserDenied ==
  [][\A p \in ActionPayloads :
       (p.user \notin DOMAIN user_rows /\ HandleMessage(PresentationTopic, p))
         => NotHonoured]_vars

C1_Witness ==
  /\ last_log.kind = "denied"
  /\ last_log.user \notin DOMAIN user_rows
  /\ user_rows # << >>

\* C2: for a user with a ledger entry, next/previous is allowed iff the
\* entry's nav is true and start/end/blackout iff its control is true.
C2_EntryDecides ==
  [][\A p \in ActionPayloads :
       (/\ p.user \in Users \cap DOMAIN user_rows
        /\ p.action \in NavActions \cup ControlActions
        /\ HandleMessage(PresentationTopic, p))
         => LET field == IF p.action \in NavActions THEN "nav" ELSE "control"
            IN (last_log'.kind = "allowed") <=> user_rows[p.user][field]]_vars

\* C3: the key of the matching effect is sent exactly once by a handler run
\* that reports "allowed and executed", and no key is sent by any other step.
C3_EffectOncePerAllowed ==
  [][IF last_log'.kind = "allowed"
       THEN \E p \in ActionPayloads :
              /\ HandleMessage(PresentationTopic, p)
              /\ p.action \in NavActions \cup ControlActions
              /\ keys' = Append(keys, EffectKey(p.action))
       ELSE keys' = keys]_vars

C3_Witness ==
  /\ last_log = LogLine("allowed", "alice")
  /\ keys = <<"b">>

\* C4: once offline or connection_lost has been processed for u, no action of
\* u is honoured until an online for u is processed; u has no entry meanwhile.
C4_DeniedAfterOffline ==
  [][/\ \A u \in went_offline' : u \notin DOMAIN user_rows'
     /\ \A p \in ActionPayloads :
          (p.user \in went_offline /\ HandleMessage(PresentationTopic, p))
            => NotHonoured]_vars

C4_Witness ==
  /\ last_log = LogLine("denied", "alice")
  /\ "alice" \in went_offline
  /\ user_rows = << >>

\* C5: online for a user without an entry creates the entry nav = true,
\* control = false and changes no other entry.
C5_OnlineInserts ==
  [][\A p \in StatusPayloads :
       (/\ p.status = "online"
        /\ p.user \notin DOMAIN user_rows
        /\ HandleMessage(StatusTopic, p))
         => /\ DOMAIN user_rows' = DOMAIN user_rows \cup {p.user}
            /\ user_rows'[p.user] = DefaultEntry
            /\ \A u \in DOMAIN user_rows : user_rows'[u] = user_rows[u]]_vars

C5_Witness ==
  /\ last_log = LogLine("online", "alice")
  /\ user_rows["alice"] = DefaultEntry
  /\ \E u \in DOMAIN user_rows : user_rows[u] # DefaultEntry

\* C6: online for a user that already has an entry leaves the ledger as it
\* is, toggled values included.
C6_DuplicateOnlineNoOp ==
  [][\A p \in StatusPayloads :
       (/\ p.status = "online"
        /\ p.user \in DOMAIN user_rows
        /\ HandleMessage(StatusTopic, p))
         => user_rows' = user_rows]_vars

C6_Witness ==
  /\ last_log = LogLine("online", "alice")
  /\ user_rows["alice"] = [nav |-> FALSE, control |-> TRUE]

\* C7: offline or connection_lost for u removes u's entry, keeps every other
\* entry, and changes nothing when u has no entry.
C7_OfflineRemoves ==
  [][\A p \in StatusPayloads :
       (/\ p.status \in {"offline", "connection_lost"}
        /\ HandleMessage(StatusTopic, p))
         => /\ DOMAIN user_rows' = DOMAIN user_rows \ {p.user}
            /\ \A u \in DOMAIN user_rows' : user_rows'[u] = user_rows[u]]_vars

C7_Witness ==
  /\ last_log.kind \in {"offline", "connection_lost"}
  /\ last_log.user \in went_offline
  /\ user_rows # << >>

\* the entries u and the booleans f in which two ledgers over the same users
\* differ
Flipped(old, new) ==
  {uf \in (DOMAIN old) \X {"nav", "control"} : new[uf[1]][uf[2]] # old[uf[1]][uf[2]]}

\* C8: a click on the permission table flips exactly one boolean of exactly
\* one existing entry, or changes nothing; it never adds or removes an entry,
\* and a click on the nav or control cell of an existing user's row flips that
\* boolean.
C8_ToggleFlipsOne ==
  [][\A c \in Clicks(DOMAIN user_rows) :
       OnTreeviewClick(c[1], c[2], c[3]) =>
         /\ DOMAIN user_rows' = DOMAIN user_rows
         /\ Cardinality(Flipped(user_rows, user_rows')) <= 1
         /\ IF c[1] = "cell" /\ c[3] \in {"#2", "#3"} /\ c[2] # NoRow
                /\ TkStr(c[2]) \in DOMAIN user_rows
              THEN Flipped(user_rows, user_rows')
                     = {<<TkStr(c[2]),
                          IF c[3] = "#2" THEN "nav" ELSE "control">>}
              ELSE user_rows' = user_rows]_vars

C8_Witness ==
  /\ last_log = LogLine("permission_changed", "alice")
  /\ Cardinality(DOMAIN user_rows) >= 2
  /\ user_rows["alice"] = [nav |-> TRUE, control |-> TRUE]

(***************************************************************************)
(* Properties of the reconnect machinery                                   *)
(***************************************************************************)
AliveThreads == {t \in Threads : IsAlive(t)}

\* C9: at every moment at most one reconnect-loop thread of the handler is
\* running, so a second unexpected loss while the loop runs starts no second
\* loop.
C9_SingleReconnectLoop == Cardinality(AliveThreads) <= 1

C9_Witness ==
  /\ start_skipped
  /\ Cardinality(AliveThreads) = 1
  /\ \A t \in Threads : t > 1 => thread_pc[t] = "unborn"

\* C10: once disconnect() has returned and until connect() is called again,
\* the reconnect loop makes no reconnect attempt.
C10_NoAttemptAfterDisconnect ==
  [][caller_disconnected =>
       \A t \in Threads, raises \in BOOLEAN : ~LoopReconnect(t, raises)]_vars

\* a reconnect thread is created by the step
ThreadCreated ==
  \E t \in Threads : thread_pc[t] = "unborn" /\ thread_pc'[t] # "unborn"

\* C11: no reconnect thread is created by an _on_disconnect that reports
\* rc = 0, nor by one during which _should_reconnect was false from its entry
\* on (disconnect() had cleared it and no connect() set it again).
C11_CleanDisconnectStartsNoLoop ==
  [][ThreadCreated => (net_rc # 0 /\ ~flag_off_since_entry)]_vars

C11_Witness ==
  /\ net_pc = "idle"
  /\ net_rc = 1
  /\ flag_off_since_entry
  /\ caller_disconnected
  /\ "on_disconnect" \in notified
  /\ \A t \in Threads : thread_pc[t] = "unborn"

\* C12: after an unexpected loss the handler is never left disconnected with
\* _should_reconnect true and no reconnect loop running.
C12_NeverStranded ==
  (recovering /\ net_pc = "idle")
    => (connected \/ ~should_reconnect \/ AliveThreads # {})

\* C13: after connect() has raised TimeoutError the connected flag is false,
\* that attempt caused no on_connect notification and no online presence, and
\* it started no reconnect loop.
C13_TimeoutLeavesIdle ==
  timed_out =>
    /\ ~connected
    /\ notified \cap {"on_connect", "on_publish online"} = {}
    /\ ~loop_started

\* C14: once disconnect() of a client that published offline on a live
\* connection has returned, the broker's retained presence of that session
\* is offline: not connection_lost and not a later online.
C14_OfflineIsFinal ==
  (offline_delivered /\ caller_disconnected)
    => retained[StatusOf(base_topic)].text.status = "offline"

\* the caller's step from the end of connect()'s preparations into
\* _connect_to_broker, where the broker connection is initiated
InitiatesConnection == caller_pc = "prepared" /\ caller_pc' = "waiting"

\* C16: whenever a client initiates the broker connection in connect(), the
\* registered will is the retained QoS 1 message on <base>/status whose
\* payload is encrypt(key, {user, status: connection_lost}) for the user and
\* the password of that connect() call, and it goes with the connection.
C16_WillRegisteredFirst ==
  [][(role = "client" /\ InitiatesConnection) =>
       /\ will = [topic |-> <<"presentationclicker", connect_args[2],
                              "status">>,
                  payload |-> Encrypt(GetFernet(connect_args[3]),
                                      StatusJson(connect_args[1],
                                                 "connection_lost")),
                  qos |-> 1, retain |-> TRUE]
       /\ link_will' = will]_vars

C16_Witness ==
  /\ role = "client"
  /\ caller_pc = "waiting"
  /\ link = "pending"
  /\ connect_args = <<"bob", "ROOM", Pw2>>
  /\ link_will = will
  /\ retained[StatusTopic].text.user = "alice"

\* position of the first x in a sequence, 0 when it has none
Position(seq, x) ==
  IF \E i \in DOMAIN seq : seq[i] = x
    THEN CHOOSE i \in DOMAIN seq : seq[i] = x /\ \A j \in 1..(i - 1) : seq[j] # x
    ELSE 0

\* C17: every completed handshake, initial or by the reconnect loop, makes
\* the handler subscribe, makes the client and only the client publish the
\* retained online presence, and both come before the on_connect callback.
C17_SubscribeAndPresenceFirst ==
  [][(link = "pending" /\ link' = "up") =>
       LET done == connect_trace'
           sub == Position(done, "subscribe")
           pub == Position(done, "publish online")
           up == Position(done, "on_connect")
       IN /\ 0 < sub /\ sub < up
          /\ IF role = "client"
               THEN /\ 0 < pub /\ pub < up
                    /\ retained' =
                         [retained EXCEPT ![StatusOf(base_topic)] =
                            Encrypt(fernet, StatusJson(session_user, "online"))]
               ELSE pub = 0 /\ retained' = retained]_vars

C17_Witness ==
  /\ role = "client"
  /\ connected
  /\ loop_started
  /\ "on_disconnect" \in notified
  /\ connect_trace # << >>
  /\ retained[StatusOf(base_topic)].text.status = "online"

Unusable(e) ==
  e.token.key # e.fernet \/ e.token.tampered \/ e.token.text.json # "object"

\* the UI runs the oldest scheduled _handle_message
HandlesOldest == ui_queue # << >> /\ ui_queue' = Tail(ui_queue)

\* C19: handling a message that came from a token made under another
\* password, from a tampered token, or from text that is not JSON changes
\* neither the ledger nor the keys sent, on either topic.
C19_UnusableMessageDropped ==
  [][(HandlesOldest /\ Unusable(ui_queue[1]))
       => (user_rows' = user_rows /\ keys' = keys)]_vars

C19_Witness ==
  /\ "alice" \in DOMAIN user_rows
  /\ last_log.kind = "malformed"
  /\ decrypt_failed
  /\ ui_queue # << >>
  /\ ui_queue[1].topic = StatusTopic
  /\ ui_queue[1].token.text = StatusJson("alice", "offline")
  /\ ui_queue[1].token.key # srv_fernet
  /\ ui_queue[1].payload = Placeholder

\* the connection_lost presence of the client's user is on its way to the
\* server's UI: held by the broker or scheduled with root.after
LossOnItsWay ==
  \/ \E i \in DOMAIN wire :
       wire[i].token.text = StatusJson(session_user, "connection_lost")
  \/ \E i \in DOMAIN ui_queue :
       ui_queue[i].payload = StatusJson(session_user, "connection_lost")

\* the server's UI has handled a final offline or connection_lost of the
\* client's user, who has no ledger entry
LossSettled ==
  session_user \in went_offline /\ session_user \notin DOMAIN user_rows

\* C15: once a connected client is gone without disconnect(), a listening
\* server has the connection_lost presence of the client's user (the will
\* published by the broker) on its way until it has handled it, and it does
\* get to handle it, which leaves that user without a ledger entry.
C15_LostClientObserved ==
  /\ []((~client_alive /\ srv_subscribed) => (LossOnItsWay \/ LossSettled))
  /\ LossOnItsWay
       ~> (/\ last_log = LogLine("connection_lost", session_user)
           /\ session_user \notin DOMAIN user_rows)

C15_Witness ==
  /\ ~client_alive
  /\ last_log = LogLine("connection_lost", "alice")
  /\ "alice" \notin DOMAIN user_rows
  /\ keys # << >>

\* C20: one published next makes advance fire exactly once at the server, so
\* the keys the server sends never outnumber the actions the client
\* published.
C20_AdvanceExactlyOnce == Len(keys) <= published

\* the upward notifications that are executing, each with its thread: the
\* caller thread is inside on_publish between the call made by
\* publish_status or publish_action and its return, the network thread is
\* inside on_connect or on_disconnect between the call made by _on_connect
\* or _on_disconnect and its return
RunningUpcalls ==
  (IF caller_pc \in {"on_publish_status", "on_publish_action"}
     THEN {<<"caller", "on_publish">>} ELSE {})
  \cup (IF net_pc = "on_connect" THEN {<<"network", "on_connect">>} ELSE {})
  \cup (IF net_pc \in {"rc_clean", "rc_lost"}
          THEN {<<"network", "on_disconnect">>} ELSE {})

\* C21: the upward notifications of one session handler are delivered one
\* at a time: at no moment are two of them executing, whichever thread
\* invokes them
C21_OneUpcallAtATime == Cardinality(RunningUpcalls) <= 1

(***************************************************************************)
(* Threads of the listening server                                         *)
(***************************************************************************)
\* a step of the Tk main loop on the permission table: one boolean of one
\* entry flips, nothing is scheduled, handled or sent
ClickStep ==
  /\ ui_queue' = ui_queue
  /\ keys' = keys
  /\ DOMAIN user_rows' = DOMAIN user_rows
  /\ Cardinality(Flipped(user_rows, user_rows')) = 1

C23_AttemptsSeparatedByWait ==
  [][\A t \in Threads :
       (thread_pc[t] = "call" /\ thread_pc'[t] # "call") => ~attempted[t]]_vars

(***************************************************************************)
(* Properties of what the handler publishes                                *)
(***************************************************************************)
\* the two calls of one publish_status or publish_action: one message
\* encrypted with the session key handed to paho, then one on_publish with
\* the topic and the plaintext
OneMessageThenEcho(topic, text, retain) ==
  <<[op |-> "publish", topic |-> topic, body |-> Encrypt(fernet, text),
     qos |-> 1, retain |-> retain],
    [op |-> "on_publish", topic |-> topic, body |-> text, qos |-> 0,
     retain |-> FALSE]>>

\* the broker has received exactly the message m from the client: it goes
\* to the server when that is subscribed, and it is retained on its topic
\* exactly when it carries the retain flag
BrokerGot(m) ==
  /\ wire' = IF srv_subscribed THEN Append(wire, m) ELSE wire
  /\ retained' = IF m.retain THEN [retained EXCEPT ![m.topic] = m.token]
                             ELSE retained

\* C24: publish_action publishes exactly one encrypted {user, action} on
\* <base>/presentation with QoS 1, not retained; publish_status (offline in
\* disconnect(), online in _on_connect) publishes exactly one encrypted
\* {user, status} on <base>/status with QoS 1, retained; each then notifies
\* on_publish once with the topic and the plaintext JSON.
C24_PublishOnceThenEcho ==
  [][/\ (caller_pc # "on_publish_action" /\ caller_pc' = "on_publish_action")
          => \E a \in ActionVals \ {None} :
               LET topic == <<"presentationclicker", room, "presentation">>
                   text == ActionJson(session_user, a)
               IN /\ calls' = OneMessageThenEcho(topic, text, FALSE)
                  /\ BrokerGot([topic |-> topic,
                                token |-> Encrypt(fernet, text),
                                qos |-> 1, retain |-> FALSE])
     /\ (caller_pc # "on_publish_status" /\ caller_pc' = "on_publish_status")
          => LET topic == <<"presentationclicker", room, "status">>
                 text == StatusJson(session_user, "offline")
             IN /\ calls' = OneMessageThenEcho(topic, text, TRUE)
                /\ link = "up" =>
                     BrokerGot([topic |-> topic,
                                token |-> Encrypt(fernet, text),
                                qos |-> 1, retain |-> TRUE])
     /\ (role = "client" /\ net_pc # "on_connect" /\ net_pc' = "on_connect"
         /\ inflight = NoToken)
          => LET topic == <<"presentationclicker", room, "status">>
                 text == StatusJson(session_user, "online")
             IN /\ Tail(calls') = OneMessageThenEcho(topic, text, TRUE)
                /\ BrokerGot([topic |-> topic,
                              token |-> Encrypt(fernet, text),
                              qos |-> 1, retain |-> TRUE])]_vars

\* the client has published an action, which is with the server's UI, and
\* is now inside on_publish for the offline presence, which the broker has
\* retained and passed on
C24_Witness ==
  /\ caller_pc = "on_publish_status"
  /\ published = 1
  /\ keys = <<"right">>
  /\ retained[StatusTopic].text.status = "offline"
  /\ wire # << >>
  /\ wire[Len(wire)] = [topic |-> StatusTopic,
                        token |-> retained[StatusTopic],
                        qos |-> 1, retain |-> TRUE]

\* C28: the server session publishes nothing: it has no will, it asks paho
\* for nothing but subscriptions, no step of it changes what the broker
\* retains or reports on_publish, and its disconnect() goes from clearing
\* the flag straight to loop_stop and the transport's disconnect, with no
\* presence and no grace period in between.
C28_ServerPublishesNothing ==
  [][role = "server" =>
       /\ will' = NoWill /\ link_will' = NoWill
       /\ \A i \in DOMAIN calls' : calls'[i].op = "subscribe"
       /\ retained' = retained
       /\ notified' \subseteq {"on_connect", "on_disconnect"}
       /\ (caller_pc = "idle" /\ ~should_reconnect' /\ should_reconnect)
            => caller_pc' = "srv_flag_cleared"
       /\ (caller_pc = "srv_flag_cleared" /\ caller_pc' # caller_pc)
            => (caller_pc' = "srv_stopped" /\ ~loop_running')
       /\ (caller_pc = "srv_stopped" /\ caller_pc' # caller_pc)
            => /\ caller_pc' = "idle"
               /\ link' \notin {"pending", "up"}
               /\ caller_disconnected']_vars

\* a server that was connected, lost the connection, got it back through
\* the reconnect loop and has then disconnected
C28_Witness ==
  /\ role = "server"
  /\ caller_disconnected
  /\ loop_started
  /\ "on_connect" \in notified
  /\ calls = <<Request("subscribe", AllOf(BaseTopic), NoToken, 0, FALSE)>>

\* the caller's step that is connect() storing its arguments
ConnectCalled == caller_pc = "idle" /\ caller_pc' = "prepared"

\* C29: the base topic is computed by connect() as presentationclicker/<room>
\* from the room of that call and changed by nothing else, and every
\* subscription and publication the handler asks for, also after a
\* reconnect, is on a topic under the base topic of the latest connect().
C29_BaseTopicFixedPerConnect ==
  [][/\ ConnectCalled
          => /\ room' = connect_args'[2]
             /\ base_topic' = <<"presentationclicker", connect_args'[2]>>
     /\ ~ConnectCalled => (base_topic' = base_topic /\ room' = room)
     /\ \A i \in DOMAIN calls' :
          Matches(<<"presentationclicker", connect_args'[2]>>,
                  calls'[i].topic)]_vars

\* a client that was in the first room is connected to the other room, has
\* lost that connection and subscribed and announced itself again after the
\* reconnect loop restored it
C29_Witness ==
  /\ role = "client"
  /\ room = "OTHER"
  /\ connected
  /\ loop_started
  /\ retained[StatusTopic] # NoToken
  /\ Len(calls) = 3
  /\ calls[1] = Request("subscribe", AllOf(GetBaseTopic("OTHER")), NoToken,
                        0, FALSE)
  /\ calls[2].topic = StatusOf(GetBaseTopic("OTHER"))

(***************************************************************************)
(* The packaged listener UI                                                *)
(* (presentation_clicker_listener/presentation_clicker_listener/           *)
(* ui_server.py): the same ledger, keystrokes and log, handled by the      *)
(* package's own copies of the handlers.                                   *)
(***************************************************************************)

\* _update_user(user, nav, control) of the package: an existing row gets the
\* given nav and control, a missing one is inserted
PackagedUpdateUser(rows, user, nav, control) ==
  IF user \in DOMAIN rows
    THEN [rows EXCEPT ![user] = [nav |-> nav, control |-> control]]
    ELSE [u \in DOMAIN rows \cup {user} |->
            IF u = user THEN [nav |-> nav, control |-> control] ELSE rows[u]]

\* keyboard.send(...) of the package's presentation branch; the list
\* ["shift", "f5"] is one step pressing both keys
PackagedKeyFor(action) ==
  CASE action = "next" -> "right"
    [] action = "previous" -> "left"
    [] action = "start" -> "shift+f5"
    [] action = "end" -> "esc"
    [] action = "blackout" -> "b"

\* the line "User '<user>' is now <status>." is logged for every status
PackagedStatusLog(status) ==
  IF status \in {"online", "offline"} THEN status ELSE "now_other"

\* the status branch of the package's _handle_message
PackagedHandleStatus(data) ==
  /\ keys' = keys
  /\ last_log' = LogLine(PackagedStatusLog(data.status), data.user)
  /\ CASE data.status = "online" ->
            /\ user_rows' =
                 PackagedUpdateUser(user_rows, data.user, TRUE, FALSE)
            /\ went_offline' = went_offline \ {data.user}
       [] data.status = "offline" ->
            /\ user_rows' = RemoveUser(user_rows, data.user)
            /\ went_offline' = went_offline \cup {data.user}
       [] data.status = "connection_lost" ->
            /\ user_rows' = user_rows
            /\ went_offline' = went_offline \cup {data.user}
       [] OTHER ->
            /\ user_rows' = user_rows
            /\ went_offline' = went_offline

\* the presentation branch of the package's _handle_message: no test of
\* user and action, every message is logged as allowed or denied
PackagedHandleAction(data) ==
  /\ user_rows' = user_rows
  /\ went_offline' = went_offline
  /\ IF Allowed(user_rows, data.user, data.action)
       THEN /\ keys' = Append(keys, PackagedKeyFor(data.action))
            /\ last_log' = LogLine("allowed", data.user)
       ELSE /\ keys' = keys
            /\ last_log' = LogLine("denied", data.user)

\* _handle_message(topic, payload) of the package, run on the UI thread
PackagedHandleMessage(topic, payload) ==
  /\ IF payload.json # "object"
       THEN /\ last_log' = LogLine("malformed", None)
            /\ UNCHANGED <<user_rows, keys, went_offline>>
       ELSE IF EndsWith(topic, "status")
         THEN PackagedHandleStatus(payload)
         ELSE IF EndsWith(topic, "presentation")
           THEN PackagedHandleAction(payload)
           ELSE /\ last_log' = LogLine("none", None)
                /\ UNCHANGED <<user_rows, keys, went_offline>>
  /\ UNCHANGED mqttVars
  /\ UNCHANGED standaloneVars

\* on_treeview_click(event) of the package: the toggle, then _update_user
\* with the row's own values
PackagedOnTreeviewClick(region, row, col) ==
  /\ IF region # "cell" \/ row = NoRow \/ col \notin {"#2", "#3"}
          \/ TkStr(row) \notin DOMAIN user_rows
       THEN /\ user_rows' = user_rows
            /\ last_log' = LogLine("none", None)
       ELSE LET user == TkStr(row)
                field == IF col = "#2" THEN "nav" ELSE "control"
                toggled == Toggle(user_rows, user, field)
            IN /\ user_rows' =
                    PackagedUpdateUser(toggled, user, toggled[user].nav,
                                       toggled[user].control)
               /\ last_log' = LogLine("permission_changed", user)
  /\ UNCHANGED <<keys, went_offline>>
  /\ UNCHANGED mqttVars
  /\ UNCHANGED standaloneVars

PackagedReceiveMessage ==
  /\ \E d \in Deliveries : PackagedHandleMessage(d[1], d[2])
  /\ Len(keys') <= MaxKeys
  /\ UNCHANGED serverVars

PackagedClickTreeview ==
  /\ \E c \in Clicks(DOMAIN user_rows) :
       PackagedOnTreeviewClick(c[1], c[2], c[3])
  /\ UNCHANGED serverVars

NextPackaged == PackagedReceiveMessage \/ PackagedClickTreeview

SpecPackaged == Init /\ [][NextPackaged]_vars

\* C30: in the packaged listener UI an online presence for a user that
\* already has an entry leaves the ledger as it is, values toggled by the
\* operator included.
C30_PackagedDuplicateOnlineNoOp ==
  [][\A p \in StatusPayloads :
       (/\ p.status = "online"
        /\ p.user \in DOMAIN user_rows
        /\ PackagedHandleMessage(StatusTopic, p))
         => user_rows' = user_rows]_vars

(***************************************************************************)
(* The command line and the cipher as specifications of their own          *)
(***************************************************************************)
NextCli ==
  \/ CliMain
  \/ ClientMain
  \/ ServerMain
  \/ ListenerMain
  \/ PackagedMain

\* a command and its flags were typed; no handler exists yet
InitCommand ==
  /\ InitLedger
  /\ InitMqtt("client")
  /\ InitServer
  /\ entry \in Entries
  /\ cli_args \in Flags
  /\ sys_argv = cli_args
  /\ cli_pc = "start"
  /\ printed = None
  /\ config_written = FALSE
  /\ pwd_client = << >>
  /\ pwd_server = << >>
  /\ message = << >>
  /\ key_client = NoKey
  /\ key_server = NoKey
  /\ token = NoCipher
  /\ opened = NotOpened
  /\ stale = {}
  /\ upcalls = << >>
  /\ online_peers = {}
  /\ ghost_will = NoWill

SpecCli == InitCommand /\ [][NextCli]_vars

NextCipher ==
  \/ ClientDerive
  \/ ServerDerive
  \/ ClientEncrypt
  \/ ServerDecrypt

\* passwords were typed into both sides, of NUL, "p" and "e" with an acute
\* accent, and the client has a text to send, of the quote and the braces
\* (json.dumps writes ASCII only); no handler is connected
InitPasswords ==
  /\ InitLedger
  /\ InitMqtt("client")
  /\ InitServer
  /\ entry = None
  /\ cli_args = NoFlags
  /\ sys_argv = NoFlags
  /\ cli_pc = "idle"
  /\ printed = None
  /\ config_written = FALSE
  /\ pwd_client \in Texts({0, 112, 233}, MaxPwdLen)
  /\ pwd_server \in Texts({0, 112, 233}, MaxPwdLen)
  /\ message \in Texts({34, 123, 125}, MaxMsgLen)
  /\ key_client = NoKey
  /\ key_server = NoKey
  /\ token = NoCipher
  /\ opened = NotOpened
  /\ stale = {}
  /\ upcalls = << >>
  /\ online_peers = {}
  /\ ghost_will = NoWill

SpecCipher == InitPasswords /\ [][NextCipher]_vars

(***************************************************************************)
(* Properties of the command line                                          *)
(***************************************************************************)
\* a flag value the command line must refuse
InvalidFlags(args) ==
  \/ args.port # NoInt /\ ~(1 <= args.port[1] /\ args.port[1] <= 65535)
  \/ args.keepalive # NoInt /\ args.keepalive[1] <= 0
  \/ args.transport \notin {None, "tcp", "websockets"}

\* C27: whatever the command, flags with a port outside 1..65535, a
\* keepalive that is not positive or an unknown transport never get the
\* config written or the app's window opened, and the invocation has printed
\* an error when it exits.
C27_InvalidFlagsRejected ==
  (entry \in Entries /\ InvalidFlags(cli_args))
    => /\ ~config_written
       /\ cli_pc # "running"
       /\ cli_pc = "exited" => printed \in ErrorLines

C26_DeterministicAndSeparate ==
  /\ (pwd_client = pwd_server /\ key_client # NoKey /\ key_server # NoKey)
       => key_client = key_server
  /\ (pwd_client # pwd_server /\ message # << >> /\ opened # NotOpened)
       => opened.status = "failed"

(***************************************************************************)
(* Properties of the packaged listener UI                                  *)
(***************************************************************************)
\* C31: in the packaged listener UI a connection_lost presence for u removes
\* u's entry, and no action of a user whose latest presence was offline or
\* connection_lost sends a key.
C31_PackagedLostRemoves ==
  [][/\ \A p \in StatusPayloads :
          (/\ p.status = "connection_lost"
           /\ PackagedHandleMessage(StatusTopic, p))
            => p.user \notin DOMAIN user_rows'
     /\ \A p \in ActionPayloads :
          (/\ p.user \in went_offline
           /\ PackagedHandleMessage(PresentationTopic, p))
            => keys' = keys]_vars

(***************************************************************************)
(* Properties of the ledger's keys                                         *)
(***************************************************************************)
\* C39: a message that is not a JSON object with a non-empty user changes
\* neither the ledger nor the keys sent, and every key of the ledger is a
\* non-empty display name.
C39_OnlyNamedUsers ==
  [][/\ \A d \in Deliveries :
          (/\ ~(d[2].json = "object" /\ Truthy(d[2].user))
           /\ HandleMessage(d[1], d[2]))
            => user_rows' = user_rows /\ keys' = keys
     /\ \A u \in DOMAIN user_rows' : Truthy(u)]_vars

(***************************************************************************)
(* Properties of unknown actions                                           *)
(***************************************************************************)
\* C38: an action message whose action is none of start, end, next,
\* previous, blackout sends no key and is not reported as allowed, whatever
\* the entry of its user says.
C38_UnknownActionDenied ==
  [][\A p \in ActionPayloads :
       (/\ p.action \notin NavActions \cup ControlActions
        /\ HandleMessage(PresentationTopic, p))
         => /\ keys' = keys
            /\ last_log'.kind \in {"denied", "malformed_action"}]_vars

\* a user with both permissions was denied: the action was an unknown one
C38_Witness ==
  /\ last_log = LogLine("denied", "alice")
  /\ "alice" \in DOMAIN user_rows
  /\ user_rows["alice"] = [nav |-> TRUE, control |-> TRUE]

(***************************************************************************)
(* Properties of the server's sessions                                     *)
(***************************************************************************)
\* C37: once the operator has disconnected the server and connected it
\* again, no key is sent for a user whose row was made before that
\* disconnect and has been in the ledger ever since.
C37_NoStaleAllowance ==
  [][(srv_subscribed /\ keys' # keys) => last_log'.user \notin stale]_vars

(***************************************************************************)
(* Properties of the inbound path                                          *)
(***************************************************************************)
\* C33: for the message it received last, _on_message has called on_message
\* at most once, whether the token decrypts or not and whether the callback
\* raised or not.
C33_AtMostOneUpcall == Len(upcalls) <= 1

(***************************************************************************)
(* Properties of the packaged client                                       *)
(***************************************************************************)
\* C32: the will the packaged client registers carries the connection_lost
\* presence of its user, and when disconnect() closes a connection that is
\* up, the message retained on the status topic is the offline presence of
\* its user.
C32_PackagedWillAndOffline ==
  [][/\ will' # NoWill
          => will'.payload
               = Encrypt(fernet', StatusJson(session_user', "connection_lost"))
     /\ (caller_pc = "srv_stopped" /\ link = "up" /\ caller_pc' = "idle")
          => retained'[StatusOf(base_topic)]
               = Encrypt(fernet, StatusJson(session_user, "offline"))]_vars

\* C32, second half alone: when disconnect() closes a connection that is up,
\* the message retained on the status topic is the offline presence.
C32_PackagedOfflineOnDisconnect ==
  [][(caller_pc = "srv_stopped" /\ link = "up" /\ caller_pc' = "idle")
          => retained'[StatusOf(base_topic)]
               = Encrypt(fernet, StatusJson(session_user, "offline"))]_vars

(***************************************************************************)
(* Properties of the presence of several clients                           *)
(***************************************************************************)
\* C35: once the connected server has handled everything the broker had for
\* it, every client that is connected and online has a row in the ledger.
C35_AllOnlinePeersListed ==
  (srv_subscribed /\ wire = << >> /\ ui_queue = << >>)
    => online_peers \subseteq DOMAIN user_rows

(***************************************************************************)
(* Properties of the recovery from a loss                                  *)
(***************************************************************************)
\* C36: when the reconnect loop has brought the client back (connected, the
\* handshake and its callback over, a reconnect thread started since
\* connect()) and the connected server has handled everything the broker had
\* and has for it, the client's user has a row in the ledger.
C36_ReconnectedClientListed ==
  (/\ loop_started /\ connected /\ link = "up" /\ net_pc = "idle"
   /\ srv_subscribed /\ wire = << >> /\ ui_queue = << >>
   /\ ghost_will = NoWill)
    => session_user \in DOMAIN user_rows

(***************************************************************************)
(* Properties of the rooms' topics                                         *)
(***************************************************************************)
\* C34: whatever the room codes, a handler connected to a room is handed no
\* message that a client of another room has published on its status or
\* presentation topic.
C34_RoomIsolation ==
  [][\A r \in RoomCodes :
       (r # room /\ upcalls' # upcalls)
         => \A i \in DOMAIN upcalls' :
              upcalls'[i].topic \notin {StatusOf(GetBaseTopic(r)),
                                        PresentationOf(GetBaseTopic(r))}]_vars

====
